---------------------------- MODULE Spec2Model ----------------------------
(***************************************************************************)
(* Poli-Granulator: the granular AudioWorklet processor                    *)
(* (GranularProcessorPro), its Poisson scheduler, grain pool and soft-kill, *)
(* and the look-ahead limiter (processLimiter).                             *)
(*                                                                          *)
(* JavaScript runs each port message handler and each process() call to     *)
(* completion, so every handler is one action.  Floating-point quantities   *)
(* are kept as scaled integers; each definition says which scale it uses.   *)
(***************************************************************************)
EXTENDS Integers, Sequences, FiniteSets

(***************************************************************************)
(* Bounds of the model.                                                     *)
(***************************************************************************)
\* The output sample rate (sampleRateOut) in Hz.
SampleRate == 150
\* Capacity of the grain pool.  The processor sets MAX_GRAINS to 1024; the
\* model keeps every formula of the code in terms of MAX_GRAINS and checks a
\* smaller pool.
MaxGrainsBound == 7
\* The two block sizes process() is called with: a short block, and a block
\* longer than the per-block spawn limit.
ShortBlock == 3
LongBlock == 26
\* The largest interval, in frames, the scheduler's draw can return here.
MaxInterval == 9
\* Source buffer length, in frames, of the buffers that get installed.
BufLen == 4
PosUlp == 4
\* The number of different semitones the keyboard sends in a chromatic run.
PolyNotes == 17
\* The numbers of ensureAudio() calls and of waitForWorkletReady() callers.
MaxEnsureCalls == 2
MaxReadyCallers == 2

Cursors == 0 .. 2
Semis == {0, 7}

Max(a, b) == IF a >= b THEN a ELSE b
Min(a, b) == IF a <= b THEN a ELSE b

(***************************************************************************)
(* windows.js: the Hann table and its interpolated lookup.  Table entries   *)
(* and envelope values are in millionths.                                  *)
(***************************************************************************)
EnvScale == 1000000
envTableSize == 1024

\* lut[i] = Math.sin(Math.PI * i / (N - 1)) ** 2 as stored in the Float32Array,
\* rounded to the nearest millionth; index i of the code is entry i + 1.
HannLUT ==
  << 
      0, 9, 38, 85, 151, 236, 339, 462, 603, 764, 943, 1141, 1357, 1593, 1847, 2120,
      2412, 2723, 3052, 3401, 3768, 4153, 4558, 4981, 5422, 5883, 6362, 6859, 7376, 7910, 8464, 9036,
      9626, 10235, 10862, 11508, 12173, 12855, 13556, 14276, 15014, 15770, 16544, 17336, 18147, 18976, 19823, 20688,
      21572, 22473, 23392, 24330, 25285, 26258, 27249, 28258, 29285, 30329, 31391, 32471, 33568, 34683, 35816, 36966,
      38134, 39319, 40521, 41741, 42978, 44232, 45503, 46792, 48098, 49420, 50760, 52117, 53490, 54881, 56288, 57712,
      59153, 60610, 62084, 63574, 65081, 66604, 68144, 69699, 71271, 72860, 74464, 76084, 77721, 79373, 81041, 82725,
      84425, 86141, 87872, 89618, 91380, 93158, 94951, 96759, 98582, 100421, 102274, 104143, 106026, 107924, 109838, 111765,
      113708, 115665, 117637, 119623, 121623, 123638, 125666, 127709, 129766, 131837, 133922, 136021, 138133, 140259, 142399, 144552,
      146718, 148898, 151091, 153297, 155517, 157749, 159994, 162252, 164523, 166806, 169102, 171411, 173732, 176065, 178410, 180768,
      183137, 185519, 187912, 190317, 192734, 195163, 197603, 200054, 202517, 204990, 207475, 209972, 212479, 214996, 217525, 220064,
      222614, 225174, 227745, 230326, 232917, 235518, 238129, 240750, 243381, 246021, 248671, 251331, 254000, 256678, 259365, 262062,
      264767, 267482, 270205, 272936, 275677, 278425, 281183, 283948, 286721, 289503, 292293, 295090, 297895, 300708, 303528, 306355,
      309190, 312033, 314882, 317738, 320601, 323471, 326347, 329230, 332120, 335016, 337918, 340826, 343740, 346660, 349586, 352518,
      355455, 358397, 361345, 364298, 367256, 370220, 373188, 376161, 379138, 382121, 385107, 388098, 391093, 394092, 397096, 400103,
      403114, 406128, 409146, 412168, 415193, 418221, 421252, 424286, 427323, 430363, 433405, 436450, 439497, 442547, 445598, 448652,
      451708, 454765, 457824, 460885, 463948, 467011, 470076, 473142, 476209, 479277, 482346, 485415, 488485, 491555, 494626, 497697,
      500768, 503839, 506909, 509980, 513050, 516120, 519189, 522257, 525325, 528391, 531457, 534521, 537584, 540645, 543705, 546764,
      549820, 552875, 555928, 558978, 562027, 565073, 568116, 571157, 574196, 577231, 580264, 583294, 586320, 589343, 592363, 595379,
      598392, 601401, 604406, 607408, 610405, 613398, 616387, 619371, 622351, 625326, 628297, 631263, 634223, 637179, 640129, 643075,
      646015, 648949, 651878, 654801, 657718, 660629, 663534, 666433, 669326, 672212, 675092, 677965, 680831, 683691, 686544, 689389,
      692228, 695059, 697883, 700700, 703509, 706310, 709103, 711889, 714666, 717436, 720197, 722950, 725695, 728431, 731158, 733877,
      736587, 739287, 741979, 744662, 747336, 750000, 752655, 755300, 757936, 760562, 763178, 765784, 768380, 770966, 773542, 776107,
      778662, 781207, 783741, 786264, 788776, 791278, 793768, 796248, 798716, 801173, 803619, 806053, 808476, 810887, 813286, 815673,
      818049, 820413, 822764, 825103, 827430, 829745, 832047, 834337, 836614, 838879, 841130, 843369, 845595, 847808, 850007, 852194,
      854367, 856527, 858673, 860806, 862925, 865030, 867122, 869200, 871264, 873314, 875350, 877372, 879379, 881372, 883351, 885315,
      887265, 889200, 891121, 893027, 894917, 896793, 898655, 900501, 902331, 904147, 905948, 907733, 909503, 911257, 912996, 914719,
      916427, 918119, 919795, 921455, 923099, 924728, 926340, 927936, 929517, 931081, 932628, 934160, 935675, 937173, 938655, 940121,
      941570, 943002, 944418, 945817, 947199, 948564, 949912, 951243, 952557, 953854, 955134, 956397, 957643, 958871, 960082, 961276,
      962452, 963611, 964752, 965876, 966983, 968071, 969142, 970195, 971231, 972249, 973249, 974231, 975195, 976141, 977070, 977980,
      978872, 979746, 980603, 981441, 982260, 983062, 983846, 984611, 985358, 986086, 986796, 987488, 988162, 988817, 989454, 990072,
      990671, 991253, 991815, 992359, 992885, 993392, 993880, 994350, 994801, 995233, 995647, 996042, 996418, 996776, 997115, 997435,
      997736, 998019, 998282, 998527, 998753, 998961, 999149, 999319, 999470, 999602, 999715, 999809, 999884, 999941, 999979, 999998,
      999998, 999979, 999941, 999884, 999809, 999715, 999602, 999470, 999319, 999149, 998961, 998753, 998527, 998282, 998019, 997736,
      997435, 997115, 996776, 996418, 996042, 995647, 995233, 994801, 994350, 993880, 993392, 992885, 992359, 991815, 991253, 990671,
      990072, 989454, 988817, 988162, 987488, 986796, 986086, 985358, 984611, 983846, 983062, 982260, 981441, 980603, 979746, 978872,
      977980, 977070, 976141, 975195, 974231, 973249, 972249, 971231, 970195, 969142, 968071, 966983, 965876, 964752, 963611, 962452,
      961276, 960082, 958871, 957643, 956397, 955134, 953854, 952557, 951243, 949912, 948564, 947199, 945817, 944418, 943002, 941570,
      940121, 938655, 937173, 935675, 934160, 932628, 931081, 929517, 927936, 926340, 924728, 923099, 921455, 919795, 918119, 916427,
      914719, 912996, 911257, 909503, 907733, 905948, 904147, 902331, 900501, 898655, 896793, 894917, 893027, 891121, 889200, 887265,
      885315, 883351, 881372, 879379, 877372, 875350, 873314, 871264, 869200, 867122, 865030, 862925, 860806, 858673, 856527, 854367,
      852194, 850007, 847808, 845595, 843369, 841130, 838879, 836614, 834337, 832047, 829745, 827430, 825103, 822764, 820413, 818049,
      815673, 813286, 810887, 808476, 806053, 803619, 801173, 798716, 796248, 793768, 791278, 788776, 786264, 783741, 781207, 778662,
      776107, 773542, 770966, 768380, 765784, 763178, 760562, 757936, 755300, 752655, 750000, 747336, 744662, 741979, 739287, 736587,
      733877, 731158, 728431, 725695, 722950, 720197, 717436, 714666, 711889, 709103, 706310, 703509, 700700, 697883, 695059, 692228,
      689389, 686544, 683691, 680831, 677965, 675092, 672212, 669326, 666433, 663534, 660629, 657718, 654801, 651878, 648949, 646015,
      643075, 640129, 637179, 634223, 631263, 628297, 625326, 622351, 619371, 616387, 613398, 610405, 607408, 604406, 601401, 598392,
      595379, 592363, 589343, 586320, 583294, 580264, 577231, 574196, 571157, 568116, 565073, 562027, 558978, 555928, 552875, 549820,
      546764, 543705, 540645, 537584, 534521, 531457, 528391, 525325, 522257, 519189, 516120, 513050, 509980, 506909, 503839, 500768,
      497697, 494626, 491555, 488485, 485415, 482346, 479277, 476209, 473142, 470076, 467011, 463948, 460885, 457824, 454765, 451708,
      448652, 445598, 442547, 439497, 436450, 433405, 430363, 427323, 424286, 421252, 418221, 415193, 412168, 409146, 406128, 403114,
      400103, 397096, 394092, 391093, 388098, 385107, 382121, 379138, 376161, 373188, 370220, 367256, 364298, 361345, 358397, 355455,
      352518, 349586, 346660, 343740, 340826, 337918, 335016, 332120, 329230, 326347, 323471, 320601, 317738, 314882, 312033, 309190,
      306355, 303528, 300708, 297895, 295090, 292293, 289503, 286721, 283948, 281183, 278425, 275677, 272936, 270205, 267482, 264767,
      262062, 259365, 256678, 254000, 251331, 248671, 246021, 243381, 240750, 238129, 235518, 232917, 230326, 227745, 225174, 222614,
      220064, 217525, 214996, 212479, 209972, 207475, 204990, 202517, 200054, 197603, 195163, 192734, 190317, 187912, 185519, 183137,
      180768, 178410, 176065, 173732, 171411, 169102, 166806, 164523, 162252, 159994, 157749, 155517, 153297, 151091, 148898, 146718,
      144552, 142399, 140259, 138133, 136021, 133922, 131837, 129766, 127709, 125666, 123638, 121623, 119623, 117637, 115665, 113708,
      111765, 109838, 107924, 106026, 104143, 102274, 100421, 98582, 96759, 94951, 93158, 91380, 89618, 87872, 86141, 84425,
      82725, 81041, 79373, 77721, 76084, 74464, 72860, 71271, 69699, 68144, 66604, 65081, 63574, 62084, 60610, 59153,
      57712, 56288, 54881, 53490, 52117, 50760, 49420, 48098, 46792, 45503, 44232, 42978, 41741, 40521, 39319, 38134,
      36966, 35816, 34683, 33568, 32471, 31391, 30329, 29285, 28258, 27249, 26258, 25285, 24330, 23392, 22473, 21572,
      20688, 19823, 18976, 18147, 17336, 16544, 15770, 15014, 14276, 13556, 12855, 12173, 11508, 10862, 10235, 9626,
      9036, 8464, 7910, 7376, 6859, 6362, 5883, 5422, 4981, 4558, 4153, 3768, 3401, 3052, 2723, 2412,
      2120, 1847, 1593, 1357, 1141, 943, 764, 603, 462, 339, 236, 151, 85, 38, 9, 0
   >>

\* envAtFromLUT(pos, len, lut): t = (p / (len - 1)) * (L - 1), linear
\* interpolation between lut[floor(t)] and its right neighbour.
envAtFromLUT(pos, len) ==
  IF len <= 1 THEN EnvScale
  ELSE LET L == envTableSize
           p == Max(0, Min(len - 1, pos))
           i == (p * (L - 1)) \div (len - 1)
           r == (p * (L - 1)) % (len - 1)
           a == HannLUT[i + 1]
           b == HannLUT[Min(i + 1, L - 1) + 1]
       IN  a + ((b - a) * r) \div (len - 1)

\* Whether lut[i] is 0: Math.sin(Math.PI * t) ** 2 is 0 for t = 0 only.  For
\* t = 1 (i = N - 1) Math.sin(Math.PI) is 1.2246e-16 and its square,
\* 1.4998e-32, is a normal Float32.
HannLUTIsZero(i) == i = 0
\* Whether envAtFromLUT(pos, len, lut) returns 0: a + (b - a) * f with a, b
\* >= 0 and 0 <= f < 1 is 0 when a is 0 and either f or b is.
envAtIsZero(pos, len) ==
  IF len <= 1 THEN FALSE
  ELSE LET L == envTableSize
           p == Max(0, Min(len - 1, pos))
           i == (p * (L - 1)) \div (len - 1)
           r == (p * (L - 1)) % (len - 1)
       IN  HannLUTIsZero(i) /\ (r = 0 \/ HannLUTIsZero(Min(i + 1, L - 1)))

(***************************************************************************)
(* State of GranularProcessorPro.                                          *)
(*                                                                         *)
(*  channels      number of source channel arrays, 0 when this.channels is *)
(*                null                                                     *)
(*  bufferLength  this.bufferLength                                        *)
(*  playing       this.playing                                             *)
(*  params        per cursor: density (grains/s) and durMs, the value of   *)
(*                (attack + release) * grainSize in milliseconds           *)
(*  kbNotes, kbRR held notes per cursor and the round-robin index          *)
(*  killPending   this._killPending                                        *)
(*  framesToNext  framesToNextGrainA / B / C                               *)
(*  g_count       number of live grains                                    *)
(*  grains        entries 0 .. g_count-1 of the pool arrays (g_cursor,     *)
(*                g_envPos, g_envLen) as a sequence of records; killAge    *)
(*                and killPos record, for the properties only, the frames  *)
(*                processed since a soft-kill first reached the grain and  *)
(*                the envelope position at which its length was cut        *)
(*                (-1: never); gainC is g_gainC in units of 1 / GainScale  *)
(*  served        per cursor and held note, how many grains were spawned   *)
(*                with that note since the held set last changed, counted  *)
(*                from the least-served note                               *)
(*  blk           what the last process() call did (NoBlk after a message); *)
(*                outL / outR are its output block: 0 for a sample that is *)
(*                exactly zero, 1 for a sample the filter bank and the     *)
(*                limiter wrote; used holds the parameters _readParams()   *)
(*                returned to it                                           *)
(*  positions     this.positions, a Float32Array, in units of 1 / PosOne   *)
(*  paramView     this.paramView: NoView (null) or, per cursor, the values *)
(*                the shared array holds for that cursor                   *)
(*  loudMap       this.loudMap: NoMap (null) or a record with the rms      *)
(*                windows of the map                                       *)
(*  lastFinite    per cursor and field, the last finite value delivered    *)
(*                for it by a message or through the shared array (the     *)
(*                default before any), for the properties only             *)
(*  lastMsg       the message port.onmessage handled last (NoMsg after a   *)
(*                process() call), for the properties only                 *)
(*  vizCounter    this.vizCounter, the frames counted towards the next     *)
(*                positions / telemetry event                              *)
(*  gainSt        the per-cursor gains, in units of 1 / GainScale: param   *)
(*                is paramsA / B / C .gain, view the gain slots of the     *)
(*                shared array, smooth this._gainSmooth and target         *)
(*                this._gainTarget                                         *)
(***************************************************************************)
VARIABLES channels, bufferLength, playing, params, kbNotes, kbRR,
          killPending, framesToNext, g_count, grains, served, blk,
          positions, paramView, loudMap, lastFinite, lastMsg, vizCounter,
          gainSt

(***************************************************************************)
(* What a listener on the processor's port has seen, for the properties    *)
(* only.  For each of the two kinds of event, `since` is the number of     *)
(* frames process() has counted after the block of the latest event (-1    *)
(* before the first event) and `gap` is that number as it stood, the block *)
(* of the event included, when the latest event was posted (-1 for the     *)
(* first event).  Both stop counting at GapCap.                            *)
(***************************************************************************)
VARIABLES vizObs

(***************************************************************************)
(* State of the limiter (createLimiter) and its last output block.  Ring   *)
(* samples, the envelope and the output are in units of 1 / LimScale.      *)
(* limHist is, for the properties only, every frame written to the ring so *)
(* far (sanitized and trimmed), oldest first; limIn is the block the       *)
(* latest call was given.                                                  *)
(***************************************************************************)
VARIABLES lim, limOut, limBlocks, limHist, limIn

(***************************************************************************)
(* State of the main thread's audio engine (app/engine/audio-engine.js).   *)
(*  audioCtx, workletNode, recorderNode  whether the module variable holds *)
(*                an object                                                *)
(*  wired         the nodes are connected and both port.onmessage handlers *)
(*                of the main thread are installed                         *)
(*  workletReadyPromise  "null", "pending" or "resolved"                   *)
(*  resolveWorkletReady  whether the variable holds a resolve function     *)
(*  ensurePc      per call of ensureAudio(): "idle" (not made), "module1"  *)
(*                / "module2" (at the first / second await) or "resolved"  *)
(*  waiters       per caller of waitForWorkletReady(): "idle", "waiting"   *)
(*                (awaiting the promise) or "done"                         *)
(*  toWorklet     the messages posted to the worklet node's port and not   *)
(*                yet handled, by type                                     *)
(*  toMain        the number of "ready" messages on their way to the main  *)
(*                thread                                                   *)
(***************************************************************************)
VARIABLES audioCtx, workletNode, recorderNode, wired, workletReadyPromise,
          resolveWorkletReady, ensurePc, waiters, toWorklet, toMain

(***************************************************************************)
(* State of the recorder processor (RecorderProcessor): this.recording,    *)
(* this.maxFrames and this.frames (recFrames).  recObs is what a listener  *)
(* on its port has seen since the latest rec-start, for the properties     *)
(* only: the maxFrames field of that message (M), the frames of the        *)
(* rec-chunk messages (total), the number of rec-autostop messages         *)
(* (autostops), whether a rec-stop followed (stopped), and the number of   *)
(* rec-chunk messages posted after a rec-stop or after the total had       *)
(* reached M (late).                                                       *)
(***************************************************************************)
VARIABLES recording, maxFrames, recFrames, recObs

recVars == <<recording, maxFrames, recFrames, recObs>>

(***************************************************************************)
(* The latest call of a function that is checked on its own: its          *)
(* arguments and what it returned.                                         *)
(***************************************************************************)
VARIABLES win

pureVars == <<win>>

(***************************************************************************)
(* State of the note input of the main thread: the HOLD switches           *)
(* (app/state/hold.js), the keyboard glue (app/input/keyboard-glue.js),    *)
(* the MIDI controller (midi-controller.js) and the note keys of the       *)
(* QWERTY piano.                                                           *)
(*  holdState     holdState[c], HOLD of cursor c                           *)
(*  holdToggleBusy  __holdToggleBusy, the debounce guard of toggleHoldFor  *)
(*  activeCursor  what getActiveCursor() returns                           *)
(*  kbHeld        kbState.heldAll and kbState.heldByCursor                 *)
(*  kbPending     the calls of kbNoteOnSingle / kbNoteOnAll that are at    *)
(*                their await: the message each will post, and whether it  *)
(*                awaits the ensureAudio() call that initializes the audio *)
(*  glueSent      the messages the latest handler posted to the worklet    *)
(*                node's port, in order                                    *)
(*  midiNotes     state.notes of the MIDI controller: per key, what the    *)
(*                Note On stored (mode "none" for no entry)                *)
(*  playAll       state.playAll of the MIDI controller                     *)
(*  pianoKeys     per note key of the piano: modeByCode, cursorByCode and  *)
(*                semisByCode (mode "up" for a key that is not down)       *)
(*  midiObs       for the properties only: the MIDI keys that are down,    *)
(*                and per target the calls of the note-on callback minus   *)
(*                the calls of the note-off callback                       *)
(*  altDown       state.altDown of the piano                               *)
(***************************************************************************)
VARIABLES holdState, holdToggleBusy, activeCursor, kbHeld, kbPending,
          glueSent, midiNotes, playAll, pianoKeys, midiObs, altDown

glueVars == <<holdState, holdToggleBusy, activeCursor, kbHeld, kbPending,
              glueSent, midiNotes, playAll, pianoKeys, midiObs, altDown>>

(***************************************************************************)
(* The port of the worklet node: the messages the main thread posted that  *)
(* the processor has not handled yet, oldest first.                        *)
(***************************************************************************)
VARIABLES portQueue

portVars == <<portQueue>>

(***************************************************************************)
(* State of the microphone session (app/session/mic-session.js), of the    *)
(* M hotkey (hotkeys.js) and of the hold recording (app/mic-capture.js).   *)
(*  micDownM      downFlags.M                                              *)
(*  micPointer    whether the pointer is down on the mic button            *)
(*  micBusy       MicGuard.busy                                            *)
(*  micStart      the micHoldStart() call in progress: pc "idle" (none),   *)
(*                "starting" (at an await before micCtrl = rec) or         *)
(*                "visualizer" (at the await after it), and whether it was *)
(*                made through MicGuard.safely                             *)
(*  micStop       the micHoldStop() call in progress: pc "idle" (none),    *)
(*                "stopping" (awaiting micCtrl.stop()) or "cleanup" (at    *)
(*                the await of stopMicVisualizer()), and whether it was    *)
(*                made through MicGuard.safely                             *)
(*  micCtrl       whether micCtrl holds a control object                   *)
(*  micActive     active.recording                                         *)
(***************************************************************************)
VARIABLES micDownM, micPointer, micBusy, micStart, micStop, micCtrl, micActive

(***************************************************************************)
(* The waveform markers of the main thread and the position messages in    *)
(* flight.                                                                 *)
(*  positions  the positions array of app/state/params.js, in units of     *)
(*             1 / PosOne                                                  *)
(*  which      dragState.which (-1: no drag)                               *)
(*  lock       dragLock                                                    *)
(*  toWorklet  the setPositions messages posted and not yet handled, each  *)
(*             with the marker that was moved (for the properties only)    *)
(*  toMain     the "positions" events posted and not yet handled           *)
(***************************************************************************)
VARIABLES markers

micVars == <<micDownM, micPointer, micBusy, micStart, micStop, micCtrl, micActive>>
markerVars == <<markers>>

appVars == <<audioCtx, workletNode, recorderNode, wired, workletReadyPromise,
             resolveWorkletReady, ensurePc, waiters, toWorklet, toMain>>

engineVars == <<channels, bufferLength, playing, params, kbNotes, kbRR,
                killPending, framesToNext, g_count, grains, served, blk,
                positions, paramView, loudMap, lastFinite, lastMsg,
                vizCounter, gainSt>>
limVars == <<lim, limOut, limBlocks, limHist, limIn>>
\* what the handlers of the granular processor leave alone
outsideEngine == <<limVars, appVars, vizObs, recVars, glueVars, pureVars, portVars, micVars, markerVars>>
\* what the main thread's audio engine leaves alone
outsideApp == <<engineVars, limVars, vizObs, recVars, glueVars, pureVars, portVars, micVars, markerVars>>
\* what neither of the two touches
outsideBoth == <<limVars, vizObs, recVars, glueVars, pureVars, portVars, micVars, markerVars>>
\* what the limiter leaves alone
outsideLim == <<engineVars, appVars, vizObs, recVars, glueVars, pureVars, portVars, micVars, markerVars>>
\* what the recorder processor leaves alone
outsideRec == <<engineVars, limVars, appVars, vizObs, glueVars, pureVars, portVars, micVars, markerVars>>
\* what the note input leaves alone, the audio engine of the main thread apart
outsideGlue == <<engineVars, limVars, vizObs, recVars, pureVars, portVars, micVars, markerVars>>
vars == <<channels, bufferLength, playing, params, kbNotes, kbRR,
          killPending, framesToNext, g_count, grains, served, blk,
          positions, paramView, loudMap, lastFinite, lastMsg, vizCounter,
          gainSt,
          vizObs,
          lim, limOut, limBlocks, limHist, limIn,
          recording, maxFrames, recFrames, recObs,
          holdState, holdToggleBusy, activeCursor, kbHeld, kbPending,
          glueSent, midiNotes, playAll, pianoKeys, midiObs, altDown,
          portQueue,
          micDownM, micPointer, micBusy, micStart, micStop, micCtrl, micActive,
          markers,
          win,
          audioCtx, workletNode, recorderNode, wired, workletReadyPromise,
          resolveWorkletReady, ensurePc, waiters, toWorklet, toMain>>

(***************************************************************************)
(* Numbers.  A JavaScript number is an integer of the model, or one of     *)
(* the two values below for NaN and +Infinity.                             *)
(***************************************************************************)
NaN == -1000000001
Infinity == 1000000000
\* Number.isFinite(x)
isFinite(x) == x # NaN /\ x # Infinity
\* x || 0
orZero(x) == IF x = NaN THEN 0 ELSE x

MAX_GRAINS == MaxGrainsBound

\* this._killTailMs
killTailMs == 28
\* Math.max(1, Math.floor((this._killTailMs / 1000) * this.sampleRateOut))
tailFrames == Max(1, (killTailMs * SampleRate) \div 1000)
\* this._maxSpawnPerBlock
maxSpawnPerBlock == Max(24, (32 * SampleRate) \div 48000)

\* _defaultParams(): density 10, attack 0.10 + release 0.10, grainSize 1.0,
\* scanSpeed 0.  durMs is (attack + release) * grainSize in milliseconds and
\* scanSpeed is in units of 1 / PosUlp per second.
defaultParams == [density |-> 10, durMs |-> 200, scanSpeed |-> 0]

NoBlk == [ran |-> FALSE, frames |-> 0, n0 |-> 0, budget |-> 0,
          outL |-> <<>>, outR |-> <<>>, fullHits |-> 0, fullKept |-> TRUE,
          sched |-> [c \in Cursors |-> FALSE],
          attempts |-> [c \in Cursors |-> 0],
          spawned |-> [c \in Cursors |-> 0],
          cd0 |-> [c \in Cursors |-> 0],
          used |-> [c \in Cursors |-> defaultParams],
          posts |-> [positions |-> 0, telemetry |-> 0],
          render |-> [n |-> 0, live |-> {}, visits |-> <<>>, rendered |-> <<>>,
                      swapOk |-> TRUE, moved |-> 0]]

\* An output channel of n samples: 0 for a sample that holds the 0 of the
\* clearing loop and nothing else, 1 for a sample the mix and the limiter
\* wrote after it.
Zeros(n) == [i \in 1 .. n |-> 0]
Written(n) == [i \in 1 .. n |-> 1]

\* this.loudMap = null
NoMap == [set |-> FALSE, rms |-> <<>>, win |-> 1]
\* The loudness of the map is in units of 1 / LoudScale, the compensation
\* gain of a grain in units of 1 / GainScale.
LoudScale == 10000
GainScale == 1000

\* No message: every field a message of the model can carry, with the
\* cursor field as hi * 2^32 + lo (hi = NaN: the field is NaN or missing).
NoMsg == [type |-> "none", cursor |-> [hi |-> 0, lo |-> 0], semis |-> 0,
          positions |-> <<>>]

(***************************************************************************)
(* Parameters: _readParams().                                              *)
(***************************************************************************)
NoView == [set |-> FALSE, v |-> [c \in Cursors |-> defaultParams]]

\* readOne(base, fallback): get(i, fb) = Number.isFinite(val) ? val : fb
readOne(v, fallback) ==
  [density   |-> IF isFinite(v.density) THEN v.density ELSE fallback.density,
   durMs     |-> IF isFinite(v.durMs) THEN v.durMs ELSE fallback.durMs,
   scanSpeed |-> IF isFinite(v.scanSpeed) THEN v.scanSpeed ELSE fallback.scanSpeed]

\* The last finite value delivered for each field, given the values q that
\* are delivered now.
seenFinite(last, q) ==
  [density   |-> IF isFinite(q.density) THEN q.density ELSE last.density,
   durMs     |-> IF isFinite(q.durMs) THEN q.durMs ELSE last.durMs,
   scanSpeed |-> IF isFinite(q.scanSpeed) THEN q.scanSpeed ELSE last.scanSpeed]

\* _readParams(): [paramsA, paramsB, paramsC] without a shared array
readParams ==
  [c \in Cursors |->
     IF ~paramView.set THEN params[c] ELSE readOne(paramView.v[c], params[c])]

(***************************************************************************)
(* Cursor positions.  A position is a multiple of 1 / PosOne; the values a *)
(* Float32Array can hold are the multiples of PosUlp.                      *)
(***************************************************************************)
PosOne == PosUlp * SampleRate

\* x % m of JavaScript (the result has the sign of x)
jsMod(x, m) == IF x >= 0 THEN x % m ELSE 0 - ((0 - x) % m)

\* a store into this.positions (Float32Array): round to nearest
fround(x) == IF x = NaN THEN NaN ELSE ((x + PosUlp \div 2) \div PosUlp) * PosUlp

\* Math.max(0, Math.min(1, x))
clamp01(x) ==
  IF x = NaN THEN NaN
  ELSE IF x = Infinity THEN PosOne
  ELSE Max(0, Min(PosOne, x))

\* ((x % 1) + 1) % 1
wrap01(x) ==
  IF ~isFinite(x) THEN NaN
  ELSE jsMod(jsMod(x, PosOne) + PosOne, PosOne)

\* new Float32Array([0.15, 0.50, 0.85])
initialPositions ==
  [c \in Cursors |-> fround(((15 + 35 * c) * PosOne) \div 100)]

\* _advancePositions(frames, pA, pB, pC): dt = frames / sampleRateOut,
\* positions[i] = wrap01(positions[i] + (p.scanSpeed || 0) * dt)
advancePositions(frames, ps) ==
  [c \in Cursors |->
     LET sp == orZero(ps[c].scanSpeed)
         x  == IF positions[c] = NaN THEN NaN
               ELSE IF sp = Infinity THEN Infinity
               ELSE positions[c] + sp * frames
     IN  fround(wrap01(x))]

(***************************************************************************)
(* Polyphonic helpers.                                                     *)
(***************************************************************************)
SeqIndexOf(s, x) ==
  IF \E i \in 1 .. Len(s) : s[i] = x
  THEN CHOOSE i \in 1 .. Len(s) : s[i] = x /\ \A j \in 1 .. (i - 1) : s[j] # x
  ELSE 0

RemoveAt(s, i) == [j \in 1 .. (Len(s) - 1) |-> IF j < i THEN s[j] ELSE s[j + 1]]

cursorHasKb(c) == Len(kbNotes[c]) > 0
hasKbNotesAny == Len(kbNotes[0]) + Len(kbNotes[1]) + Len(kbNotes[2]) > 0

\* The held notes as the helpers below take and return them.
kbState == [kbNotes |-> kbNotes, kbRR |-> kbRR, served |-> served]

\* _addKbNote without the search for the semitone.
addKbNoteToNoSearch(k, c, s) ==
  LET arr == Append(k.kbNotes[c], s)
  IN  [kbNotes |-> [k.kbNotes EXCEPT ![c] = arr],
       kbRR    |-> [k.kbRR EXCEPT ![c] =
                      IF @ > 1000000000 THEN @ % Max(1, Len(arr)) ELSE @],
       served  |-> [k.served EXCEPT ![c] = Zeros(Len(arr))]]

\* _addKbNote(cursor, semis) on the held notes k
addKbNoteTo(k, c, s) ==
  IF \E i \in 1 .. Len(k.kbNotes[c]) : k.kbNotes[c][i] = s
  THEN k
  ELSE LET arr == Append(k.kbNotes[c], s)
       IN  [kbNotes |-> [k.kbNotes EXCEPT ![c] = arr],
            kbRR    |-> [k.kbRR EXCEPT ![c] =
                           IF @ > 1000000000 THEN @ % Max(1, Len(arr)) ELSE @],
            served  |-> [k.served EXCEPT ![c] = Zeros(Len(arr))]]

\* _removeKbNote(cursor, semis) on the held notes k
removeKbNoteFrom(k, c, s) ==
  LET i   == SeqIndexOf(k.kbNotes[c], s)
      arr == IF i > 0 THEN RemoveAt(k.kbNotes[c], i) ELSE k.kbNotes[c]
  IN  [kbNotes |-> [k.kbNotes EXCEPT ![c] = arr],
       kbRR    |-> [k.kbRR EXCEPT ![c] = IF Len(arr) = 0 THEN 0 ELSE @ % Len(arr)],
       served  |-> [k.served EXCEPT ![c] = IF i > 0 THEN Zeros(Len(arr)) ELSE @]]

\* the held notes k become the state
setKbState(k) ==
  /\ kbNotes' = k.kbNotes
  /\ kbRR' = k.kbRR
  /\ served' = k.served

\* _addKbNote(cursor, semis)
addKbNote(c, s) == setKbState(addKbNoteTo(kbState, c, s))

\* _removeKbNote(cursor, semis)
removeKbNote(c, s) == setKbState(removeKbNoteFrom(kbState, c, s))

\* _clearKbNotes(cursor)
clearKbNotes(c) ==
  /\ kbNotes' = [kbNotes EXCEPT ![c] = <<>>]
  /\ kbRR' = [kbRR EXCEPT ![c] = 0]
  /\ served' = [served EXCEPT ![c] = <<>>]

(***************************************************************************)
(* Grain pool.  A pool state st is a record                                *)
(*   [g_count, grains, kbRR, served, spawned, fullHits, fullKept]          *)
(* threaded through the spawns of one process() call.  fullHits counts the *)
(* _spawnGrain calls made while g_count = MAX_GRAINS (at most 2 are        *)
(* counted) and fullKept says whether each of them returned with g_count   *)
(* and every pooled record as they were.                                   *)
(***************************************************************************)
\* Counts kept relative to the least-served note.
Normalise(cnt) ==
  IF Len(cnt) > 0 /\ \A i \in 1 .. Len(cnt) : cnt[i] > 0
  THEN [i \in 1 .. Len(cnt) |-> cnt[i] - 1]
  ELSE cnt

\* _nextKbSemis(cursor) on the pool state: the index served and the next
\* round-robin index (index 0 when no note is held).
nextKbIndex(st, c) ==
  LET n == Len(kbNotes[c])
  IN  IF n = 0 THEN [idx |-> 0, rr |-> st.kbRR[c]]
      ELSE [idx |-> (st.kbRR[c] % n) + 1, rr |-> (st.kbRR[c] + 1) % n]

\* _loudnessAtIndex(sampleIndex), in units of 1 / LoudScale: 1 without a map
\* or with an empty one, else the rms of the window of the index, at least
\* 1e-4
loudnessAtIndex(sampleIndex) ==
  IF ~loudMap.set \/ Len(loudMap.rms) = 0 THEN LoudScale
  ELSE LET b == Max(0, Min(Len(loudMap.rms) - 1, sampleIndex \div loudMap.win))
       IN  Max(1, loudMap.rms[b + 1])

\* loudComp = Math.pow(target / local, gamma) with target 0.12 and gamma 0.6,
\* in units of 1 / GainScale, for the loudness values that occur here
loudCompOf(local) ==
  CASE local = LoudScale -> 280
    [] local = 5000 -> 425
    [] local = 1200 -> 1000
    [] local = 1 -> 70390

\* envFrames of _spawnGrain: durSec = max(0.002, (attack + release) * S),
\* envFrames = max(1, floor(durSec * sampleRateOut)), as g_envLen, an
\* Int32Array, holds it: an infinite envFrames is stored as 0.
envFramesOf(p) ==
  LET d == orZero(p.durMs)
  IN  IF d = Infinity THEN 0 ELSE Max(1, (Max(2, d) * SampleRate) \div 1000)

\* _spawnGrain without the return on a full pool.
spawnGrainNoCap(st, c) ==
  IF ~playing /\ ~cursorHasKb(c) THEN st
  ELSE IF channels = 0 \/ bufferLength = 0 THEN st
  ELSE LET nk == nextKbIndex(st, c)
           g  == [cursor |-> c, envPos |-> 0, envLen |-> envFramesOf(readParams[c]),
                  gainC |-> loudCompOf(loudnessAtIndex(0)),
                  killAge |-> -1, killPos |-> -1, id |-> 0]
       IN  [st EXCEPT !.g_count = st.g_count + 1,
                      !.grains  = Append(st.grains, g),
                      !.kbRR    = [st.kbRR EXCEPT ![c] = nk.rr],
                      !.spawned = [st.spawned EXCEPT ![c] = @ + 1]]

\* _spawnGrain taking the next held note before the full-pool test.
spawnGrainTurnOnDrop(st, c) ==
  IF ~playing /\ ~cursorHasKb(c) THEN st
  ELSE IF channels = 0 \/ bufferLength = 0 THEN st
  ELSE LET nk == nextKbIndex(st, c)
           g  == [cursor |-> c, envPos |-> 0, envLen |-> envFramesOf(readParams[c]),
                  gainC |-> loudCompOf(loudnessAtIndex(0)),
                  killAge |-> -1, killPos |-> -1, id |-> 0]
       IN  IF st.g_count >= MAX_GRAINS
           THEN [st EXCEPT !.kbRR = [st.kbRR EXCEPT ![c] = nk.rr]]
           ELSE [st EXCEPT !.g_count = st.g_count + 1,
                           !.grains  = Append(st.grains, g),
                           !.kbRR    = [st.kbRR EXCEPT ![c] = nk.rr],
                           !.served  = IF nk.idx = 0 THEN st.served
                                       ELSE [st.served EXCEPT ![c] =
                                               Normalise([@ EXCEPT ![nk.idx] = Min(3, @ + 1)])],
                           !.spawned = [st.spawned EXCEPT ![c] = @ + 1]]

\* _spawnGrain(cursorIndex, params)
spawnGrain(st, c) ==
  IF ~playing /\ ~cursorHasKb(c) THEN st
  ELSE IF channels = 0 \/ bufferLength = 0 THEN st
  ELSE IF st.g_count >= MAX_GRAINS THEN st
  ELSE LET nk == nextKbIndex(st, c)
           g  == [cursor |-> c, envPos |-> 0, envLen |-> envFramesOf(readParams[c]),
                  gainC |-> loudCompOf(loudnessAtIndex(0)),
                  killAge |-> -1, killPos |-> -1, id |-> 0]
       IN  [st EXCEPT !.g_count = st.g_count + 1,
                      !.grains  = Append(st.grains, g),
                      !.kbRR    = [st.kbRR EXCEPT ![c] = nk.rr],
                      !.served  = IF nk.idx = 0 THEN st.served
                                  ELSE [st.served EXCEPT ![c] =
                                          Normalise([@ EXCEPT ![nk.idx] = Min(3, @ + 1)])],
                      !.spawned = [st.spawned EXCEPT ![c] = @ + 1]]

\* k calls of _spawnGrain for cursor c, one after the other.
RECURSIVE spawnTimes(_, _, _)
spawnTimes(st, c, k) ==
  IF k = 0 THEN st
  ELSE LET r    == spawnGrain(st, c)
           full == st.g_count = MAX_GRAINS
           seen == [r EXCEPT !.fullHits = IF full THEN Min(2, @ + 1) ELSE @,
                             !.fullKept = @ /\ (full => r.g_count = st.g_count
                                                        /\ r.grains = st.grains)]
       IN  \* a call that changes nothing is followed by calls that change nothing
           IF seen = st THEN st ELSE spawnTimes(seen, c, k - 1)

\* _killGrainSwap filling the hole with the first grain of the pool.
killGrainSwapFirst(cnt, gs, idx) ==
  LET last == cnt - 1
  IN  [g_count |-> last,
       grains  |-> IF idx = last THEN SubSeq(gs, 1, last)
                   ELSE [j \in 1 .. last |-> IF j = idx + 1 THEN gs[1] ELSE gs[j]]]

\* _killGrainSwap(idx) on <<g_count, grains>>; idx counts from 0.
killGrainSwap(cnt, gs, idx) ==
  LET last == cnt - 1
  IN  [g_count |-> last,
       grains  |-> IF idx = last THEN SubSeq(gs, 1, last)
                   ELSE [j \in 1 .. last |-> IF j = idx + 1 THEN gs[last + 1] ELSE gs[j]]]

\* _spawnBudgetFactor() without its last step.
spawnBudgetFactorNoStop(n) ==
  LET M == MAX_GRAINS
  IN  IF 100 * n >= 85 * M THEN 20
      ELSE IF 100 * n >= 70 * M THEN 40
      ELSE IF 100 * n >= 50 * M THEN 65
      ELSE 100

\* _spawnBudgetFactor(), in hundredths.
spawnBudgetFactor(n) ==
  LET M == MAX_GRAINS
  IN  IF 100 * n >= 95 * M THEN 0
      ELSE IF 100 * n >= 85 * M THEN 20
      ELSE IF 100 * n >= 70 * M THEN 40
      ELSE IF 100 * n >= 50 * M THEN 65
      ELSE 100

(***************************************************************************)
(* schedOne(p, framesToNext, cursorIdx).  nextIntervalFramesPoisson returns *)
(* safeFloor of an exponential draw: some integer >= 1; here one of        *)
(* ivs.        The result is the set of <<spawn calls, countdown>> pairs    *)
(* the draws can lead to; schedCursor adds whether schedOne was called.    *)
(***************************************************************************)
RECURSIVE schedLoopUncapped(_, _, _, _)
\* the while loop without `spawned < this._maxSpawnPerBlock`
schedLoopUncapped(accs, spawned, frames, ivs) ==
  LET go   == { a \in accs : a <= frames }
      stop == accs \ go
  IN  { <<spawned, a - frames>> : a \in stop } \cup
      ( IF go = {} THEN {}
        ELSE schedLoopUncapped({ a + d : a \in go, d \in ivs }, spawned + 1, frames, ivs) )

RECURSIVE schedLoop(_, _, _, _)
\* while (acc <= frames && spawned < this._maxSpawnPerBlock) { spawn; acc += nextInt() }
\* return acc - frames;       accs: the values acc can have after `spawned` spawns
schedLoop(accs, spawned, frames, ivs) ==
  LET go   == { a \in accs : a <= frames /\ spawned < maxSpawnPerBlock }
      stop == accs \ go
  IN  { <<spawned, a - frames>> : a \in stop } \cup
      ( IF go = {} THEN {}
        ELSE schedLoop({ a + d : a \in go, d \in ivs }, spawned + 1, frames, ivs) )

schedOne(p, ftn, frames, budget, ivs) ==
  LET density == Max(0, orZero(p.density))
      effDen  == density * budget
  IN  IF effDen <= 0 THEN { <<0, Max(0, ftn - frames)>> }
      ELSE LET firsts == IF ftn <= 0 THEN ivs ELSE {ftn}
           IN  { <<0, f - frames>> : f \in { x \in firsts : x > frames } } \cup
               ( LET hit == { x \in firsts : x <= frames }
                 IN  IF hit = {} THEN {}
                     ELSE schedLoop({ f + d : f \in hit, d \in ivs }, 1, frames, ivs) )

\* The per-cursor scheduling with hasKb in the place of kbX.
schedCursorAnyNote(c, frames, budget, ivs) ==
  IF playing \/ hasKbNotesAny
  THEN { <<o[1], o[2], TRUE>> : o \in schedOne(readParams[c], framesToNext[c], frames, budget, ivs) }
  ELSE { <<0, Max(0, framesToNext[c] - frames), FALSE>> }

\* if (this.playing || kbX) framesToNextGrainX = schedOne(...)
\* else framesToNextGrainX = Math.max(0, framesToNextGrainX - frames)
schedCursor(c, frames, budget, ivs) ==
  IF playing \/ cursorHasKb(c)
  THEN { <<o[1], o[2], TRUE>> : o \in schedOne(readParams[c], framesToNext[c], frames, budget, ivs) }
  ELSE { <<0, Max(0, framesToNext[c] - frames), FALSE>> }

(***************************************************************************)
(* Soft kill and the render loop of process().                             *)
(***************************************************************************)
\* newLen = Math.min(g_envLen[g], g_envPos[g] + tailFrames) for the grains of
\* a cursor whose kill is pending
softKill(gs) ==
  [j \in 1 .. Len(gs) |->
     IF killPending[gs[j].cursor]
     THEN LET newLen == Min(gs[j].envLen, gs[j].envPos + tailFrames)
          IN  [gs[j] EXCEPT !.envLen = newLen,
                            !.killAge = IF @ < 0 THEN 0 ELSE @,
                            !.killPos = IF newLen < gs[j].envLen /\ @ < 0
                                        THEN gs[j].envPos ELSE @]
     ELSE gs[j]]

\* Reset kill flags when no more grains remain for that cursor.
resetKillFlags(gs) ==
  IF killPending[0] \/ killPending[1] \/ killPending[2]
  THEN [c \in Cursors |-> killPending[c] /\ \E j \in 1 .. Len(gs) : gs[j].cursor = c]
  ELSE killPending

\* What the render pass has done so far, for the properties: per grain of
\* the pool at the start of the pass (by its index then, the id) how often
\* the loop body ran for it (visits) and how often its frames were mixed
\* (rendered), whether every _killGrainSwap so far removed the grain at its
\* index and nothing else (swapOk), and whether one of them moved the last
\* grain into the hole (moved).
renderStart(gs) ==
  [n |-> Len(gs),
   live |-> {j \in 1 .. Len(gs) : gs[j].envPos < gs[j].envLen},
   visits |-> [j \in 1 .. Len(gs) |-> 0],
   rendered |-> [j \in 1 .. Len(gs) |-> 0],
   swapOk |-> TRUE, moved |-> 0]
swapSeen(log, cnt, gs, idx, k) ==
  [log EXCEPT !.swapOk = /\ @
                         /\ k.g_count = cnt - 1
                         /\ Len(k.grains) = cnt - 1
                         /\ {k.grains[j] : j \in 1 .. cnt - 1}
                              = {gs[j] : j \in (1 .. cnt) \ {idx + 1}},
              !.moved = IF idx # cnt - 1 THEN 1 ELSE @]
\* The grains of the pool with their index as id, and without it.
withIds(gs) == [j \in 1 .. Len(gs) |-> [gs[j] EXCEPT !.id = j]]
withoutIds(gs) == [j \in 1 .. Len(gs) |-> [gs[j] EXCEPT !.id = 0]]

\* The render loop freeing a grain only once its envelope position has
\* passed its length.
RECURSIVE renderLoopFreeLate(_, _, _, _, _)
renderLoopFreeLate(cnt, gs, g, frames, log) ==
  IF g < 0 THEN [g_count |-> cnt, grains |-> gs, log |-> log]
  ELSE LET envPos == gs[g + 1].envPos
           envLen == gs[g + 1].envLen
           N      == Min(envLen - envPos, frames)
           seen   == [log EXCEPT !.visits[gs[g + 1].id] = @ + 1]
       IN  IF N < 0
           THEN LET k == killGrainSwap(cnt, gs, g)
                IN  renderLoopFreeLate(k.g_count, k.grains, g - 1, frames,
                                       swapSeen(seen, cnt, gs, g, k))
           ELSE LET gs2 == [gs EXCEPT ![g + 1].envPos = @ + N]
                    mixed == [seen EXCEPT !.rendered[gs[g + 1].id] = @ + 1]
                IN  IF gs2[g + 1].envPos > envLen
                    THEN LET k == killGrainSwap(cnt, gs2, g)
                         IN  renderLoopFreeLate(k.g_count, k.grains, g - 1, frames,
                                                swapSeen(mixed, cnt, gs2, g, k))
                    ELSE renderLoopFreeLate(cnt, gs2, g - 1, frames, mixed)

\* for (let g = this.g_count - 1; g >= 0; g--) { ... }
RECURSIVE renderLoop(_, _, _, _, _)
renderLoop(cnt, gs, g, frames, log) ==
  IF g < 0 THEN [g_count |-> cnt, grains |-> gs, log |-> log]
  ELSE LET envPos == gs[g + 1].envPos
           envLen == gs[g + 1].envLen
           N      == Min(envLen - envPos, frames)
           seen   == [log EXCEPT !.visits[gs[g + 1].id] = @ + 1]
       IN  IF N <= 0
           THEN LET k == killGrainSwap(cnt, gs, g)
                IN  renderLoop(k.g_count, k.grains, g - 1, frames,
                               swapSeen(seen, cnt, gs, g, k))
           ELSE LET gs2 == [gs EXCEPT ![g + 1].envPos = @ + N]
                    mixed == [seen EXCEPT !.rendered[gs[g + 1].id] = @ + 1]
                IN  IF gs2[g + 1].envPos >= envLen
                    THEN LET k == killGrainSwap(cnt, gs2, g)
                         IN  renderLoop(k.g_count, k.grains, g - 1, frames,
                                        swapSeen(mixed, cnt, gs2, g, k))
                    ELSE renderLoop(cnt, gs2, g - 1, frames, mixed)

\* Frames processed since the soft-kill reached each grain, for the
\* properties; the count stops at KillAgeCap.
KillAgeCap == (killTailMs * SampleRate + 999) \div 1000 + ShortBlock
ageKilled(gs, frames) ==
  [j \in 1 .. Len(gs) |->
     IF gs[j].killAge >= 0
     THEN [gs[j] EXCEPT !.killAge = Min(KillAgeCap, @ + frames)]
     ELSE gs[j]]

(***************************************************************************)
(* process(inputs, outputs) with a block of `frames` frames.               *)
(***************************************************************************)
\* The audio gate without the tests of the source buffer.
audioGateIdleOnly == ~playing /\ ~hasKbNotesAny /\ ~(g_count > 0)

\* The audio gate: the condition under which process() returns after
\* clearing the output.
audioGate ==
  (~playing /\ ~hasKbNotesAny /\ ~(g_count > 0)) \/ channels = 0 \/ bufferLength = 0

\* this.vizIntervalFrames = Math.max(1, Math.floor(this.sampleRateOut / 30))
vizIntervalFrames == Max(1, SampleRate \div 30)
(***************************************************************************)
(* Per-cursor gain smoothing of process().                                 *)
(***************************************************************************)
\* gain: 0.5 of _defaultParams(), in units of 1 / GainScale
defaultGain == GainScale \div 2
\* this._gainTauMs
gainTauMs == 20

\* the constructor: paramsA / B / C = _defaultParams(), _gainSmooth and
\* _gainTarget = [0.5, 0.5, 0.5]
gainInit == [param  |-> [c \in Cursors |-> defaultGain],
             view   |-> [c \in Cursors |-> defaultGain],
             smooth |-> [c \in Cursors |-> defaultGain],
             target |-> [c \in Cursors |-> defaultGain]]

\* the gain _readParams() returns for cursor c: get(i, fb) on the gain slot
readGain(c) ==
  IF ~paramView.set THEN gainSt.param[c]
  ELSE IF isFinite(gainSt.view[c]) THEN gainSt.view[c] ELSE gainSt.param[c]

\* if (!Number.isFinite(this._gainSmooth[0])) this._gainSmooth = [pA.gain ..];
\* this._gainTarget[i] = p.gain
gainTargeted ==
  [gainSt EXCEPT
     !.smooth = IF ~isFinite(gainSt.smooth[0])
                THEN [c \in Cursors |-> readGain(c)] ELSE @,
     !.target = [c \in Cursors |-> readGain(c)]]

RECURSIVE gcd(_, _)
gcd(a, b) == IF b = 0 THEN a ELSE gcd(b, a % b)

\* exp(num / den) in units of 1 / GainScale: the sum of the first terms of
\* the series, term n being term n-1 times num / (den * n)
RECURSIVE expSeries(_, _, _, _, _)
expSeries(num, den, n, term, acc) ==
  IF n > 16 \/ term = 0 THEN acc
  ELSE LET t == (term * num) \div (den * n)
       IN  expSeries(num, den, n + 1, t, acc + t)

\* kGain = 1 - Math.exp(-(frames / sampleRateOut) / (_gainTauMs / 1000)),
\* which is 1 to within 1 / GainScale once the exponent reaches 7
kGain(frames) ==
  LET n0  == frames * 1000
      d0  == SampleRate * gainTauMs
      g   == gcd(n0, d0)
      num == n0 \div g
      den == d0 \div g
  IN  IF num >= 7 * den THEN GainScale
      ELSE GainScale - ((GainScale * GainScale)
                          \div expSeries(num, den, 1, GainScale, GainScale))

\* s += (t - s) * k, rounded to the nearest 1 / GainScale; NaN and the
\* infinities as IEEE arithmetic has them
smoothStep(s, t, k) ==
  IF s = NaN \/ t = NaN THEN NaN
  ELSE IF s = Infinity THEN NaN
  ELSE IF t = Infinity THEN Infinity
  ELSE LET d == t - s
       IN  IF d >= 0 THEN s + ((d * k + GainScale \div 2) \div GainScale)
           ELSE s - (((-d) * k + GainScale \div 2) \div GainScale)

\* for (i < 3) this._gainSmooth[i] += (_gainTarget[i] - _gainSmooth[i]) * kGain
gainSmoothed(st, frames) ==
  [st EXCEPT !.smooth = [c \in Cursors |->
                           smoothStep(st.smooth[c], st.target[c], kGain(frames))]]

\* gainA / gainB / gainC = Math.max(0, this._gainSmooth[i] * comp)
appliedGain(c) ==
  IF gainSt.smooth[c] = NaN THEN NaN
  ELSE IF gainSt.smooth[c] < 0 THEN 0 ELSE gainSt.smooth[c]

\* The counter after this.vizCounter += frames.
vizCounted(frames) == vizCounter + frames
doVizEveryBlock(cnt) == TRUE
\* const doViz = this.vizCounter >= this.vizIntervalFrames
doViz(cnt) == cnt >= vizIntervalFrames
\* The number of "positions" messages a block posts:
\* if (doViz && (this.playing || hasKb)) this.port.postMessage(...)
positionsPosted(frames) ==
  IF doViz(vizCounted(frames)) /\ (playing \/ hasKbNotesAny) THEN 1 ELSE 0
\* The number of "telemetry" messages a block posts when it passes the
\* audio gate: if (doViz) this.port.postMessage(...)
telemetryPosted(frames) == IF doViz(vizCounted(frames)) THEN 1 ELSE 0
\* if (doViz) this.vizCounter = 0
vizCounterAfter(frames) ==
  IF doViz(vizCounted(frames)) THEN 0 ELSE vizCounted(frames)

process(frames, ivs) ==
  IF audioGate
  THEN /\ grains' = ageKilled(grains, frames)
       /\ blk' = [NoBlk EXCEPT !.frames = frames, !.n0 = g_count,
                               !.cd0 = framesToNext,
                               !.outL = Zeros(frames), !.outR = Zeros(frames),
                               !.used = readParams,
                               !.posts = [positions |-> positionsPosted(frames),
                                          telemetry |-> 0]]
       /\ positions' = advancePositions(frames, readParams)
       /\ vizCounter' = vizCounterAfter(frames)
       /\ gainSt' = gainTargeted
       /\ UNCHANGED <<channels, bufferLength, playing, params, kbNotes, kbRR,
                      killPending, framesToNext, g_count, served,
                      paramView, loudMap, lastFinite>>
  ELSE LET budget == spawnBudgetFactor(g_count)
           resA   == schedCursor(0, frames, budget, ivs)
           resB   == schedCursor(1, frames, budget, ivs)
           resC   == schedCursor(2, frames, budget, ivs)
       IN  \E oA \in resA, oB \in resB, oC \in resC :
             LET st0 == [g_count |-> g_count, grains |-> grains, kbRR |-> kbRR,
                         served |-> served, spawned |-> [c \in Cursors |-> 0],
                         fullHits |-> 0, fullKept |-> TRUE]
                 stA == spawnTimes(st0, 0, oA[1])
                 stB == spawnTimes(stA, 1, oB[1])
                 stC == spawnTimes(stB, 2, oC[1])
                 cut == softKill(stC.grains)
                 rnd == renderLoop(stC.g_count, withIds(cut), stC.g_count - 1, frames,
                                   renderStart(cut))
             IN  /\ framesToNext' = [c \in Cursors |->
                                       IF c = 0 THEN oA[2] ELSE IF c = 1 THEN oB[2] ELSE oC[2]]
                 /\ kbRR' = stC.kbRR
                 /\ served' = stC.served
                 /\ killPending' = resetKillFlags(cut)
                 /\ g_count' = rnd.g_count
                 /\ grains' = ageKilled(withoutIds(rnd.grains), frames)
                 /\ blk' = [ran |-> TRUE, frames |-> frames, n0 |-> g_count,
                            budget |-> budget,
                            outL |-> Written(frames), outR |-> Written(frames),
                            sched |-> [c \in Cursors |->
                                       IF c = 0 THEN oA[3] ELSE IF c = 1 THEN oB[3] ELSE oC[3]],
                            fullHits |-> stC.fullHits, fullKept |-> stC.fullKept,
                            attempts |-> [c \in Cursors |->
                                       IF c = 0 THEN oA[1] ELSE IF c = 1 THEN oB[1] ELSE oC[1]],
                            spawned |-> stC.spawned,
                            cd0 |-> framesToNext,
                            used |-> readParams,
                            posts |-> [positions |-> positionsPosted(frames),
                                       telemetry |-> telemetryPosted(frames)],
                            render |-> rnd.log]
                 /\ positions' = advancePositions(frames, readParams)
                 /\ vizCounter' = vizCounterAfter(frames)
                 /\ gainSt' = gainSmoothed(gainTargeted, frames)
                 /\ UNCHANGED <<channels, bufferLength, playing, params, kbNotes,
                                paramView, loudMap, lastFinite>>

(***************************************************************************)
(* port.onmessage.                                                         *)
(***************************************************************************)
\* case "setBuffer": chs channel arrays (0: neither channels[] nor mono) of
\* len frames each
setBuffer(chs, len) ==
  /\ IF chs > 0
     THEN channels' = chs /\ bufferLength' = len
     ELSE channels' = 0 /\ bufferLength' = 0
  /\ blk' = NoBlk
  /\ UNCHANGED <<vizCounter, gainSt>>
  /\ UNCHANGED <<playing, params, kbNotes, kbRR, killPending, framesToNext,
                 g_count, grains, served, positions, paramView, loudMap,
                 lastFinite>>

\* case "setLoudnessMap": m is d.map, with m.has for (m && m.rms)
setLoudnessMap(m) ==
  /\ IF m.has
     THEN loudMap' = [set |-> TRUE, rms |-> m.rms, win |-> m.win]
     ELSE UNCHANGED loudMap
  /\ blk' = NoBlk
  /\ UNCHANGED <<vizCounter, gainSt>>
  /\ UNCHANGED <<channels, bufferLength, playing, params, kbNotes, kbRR,
                 killPending, framesToNext, g_count, grains, served, positions,
                 paramView, lastFinite>>

\* case "setParamsFor"
setParamsFor(c, p) ==
  /\ params' = [params EXCEPT ![c] = p]
  /\ lastFinite' = [lastFinite EXCEPT ![c] = seenFinite(@, p)]
  /\ blk' = NoBlk
  /\ UNCHANGED <<vizCounter, gainSt>>
  /\ UNCHANGED <<channels, bufferLength, playing, kbNotes, kbRR, killPending,
                 framesToNext, g_count, grains, served, positions, paramView,
                 loudMap>>

\* case "setParamsAll" with d.paramsA, d.paramsB and d.paramsC
setParamsAll(pA, pB, pC) ==
  /\ params' = [c \in Cursors |-> IF c = 0 THEN pA ELSE IF c = 1 THEN pB ELSE pC]
  /\ lastFinite' = [c \in Cursors |-> seenFinite(lastFinite[c], params'[c])]
  /\ blk' = NoBlk
  /\ UNCHANGED <<vizCounter, gainSt>>
  /\ UNCHANGED <<channels, bufferLength, playing, kbNotes, kbRR, killPending,
                 framesToNext, g_count, grains, served, positions, paramView,
                 loudMap>>

\* case "setParamSAB": contents is what the shared array d.sab holds, per
\* cursor
setParamSAB(contents) ==
  /\ paramView' = [set |-> TRUE, v |-> contents]
  /\ lastFinite' = [c \in Cursors |-> seenFinite(lastFinite[c], contents[c])]
  /\ blk' = NoBlk
  /\ UNCHANGED <<vizCounter, gainSt>>
  /\ UNCHANGED <<channels, bufferLength, playing, params, kbNotes, kbRR,
                 killPending, framesToNext, g_count, grains, served, positions,
                 loudMap>>

\* writeParamsToSAB(cursorIndex, p) of the main thread, on the array the
\* worklet's paramView shows
writeParamsToSAB(c, p) ==
  /\ paramView.set
  /\ paramView' = [paramView EXCEPT !.v[c] = p]
  /\ lastFinite' = [lastFinite EXCEPT ![c] = seenFinite(@, p)]
  /\ blk' = NoBlk
  /\ UNCHANGED <<vizCounter, gainSt>>
  /\ UNCHANGED <<channels, bufferLength, playing, params, kbNotes, kbRR,
                 killPending, framesToNext, g_count, grains, served, positions,
                 loudMap>>

\* case "setPositions": ps is d.positions, an array
setPositions(ps) ==
  /\ positions' = [c \in Cursors |->
                     IF (c <= 1 /\ Len(ps) >= 2) \/ (c = 2 /\ Len(ps) >= 3)
                     THEN fround(clamp01(ps[c + 1]))
                     ELSE positions[c]]
  /\ blk' = NoBlk
  /\ UNCHANGED <<vizCounter, gainSt>>
  /\ UNCHANGED <<channels, bufferLength, playing, params, kbNotes, kbRR,
                 killPending, framesToNext, g_count, grains, served, paramView,
                 loudMap, lastFinite>>

\* case "setPlaying"
setPlaying(v) ==
  /\ playing' = v
  /\ blk' = NoBlk
  /\ UNCHANGED <<vizCounter, gainSt>>
  /\ UNCHANGED <<channels, bufferLength, params, kbNotes, kbRR, killPending,
                 framesToNext, g_count, grains, served, positions, paramView,
                 loudMap, lastFinite>>

\* case "noteOn": c is d.cursor|0, s is Number(d.semis), a whole number or
\* NaN
noteOn(c, s) ==
  /\ IF c >= 0 /\ c <= 2 /\ isFinite(s)
     THEN addKbNote(c, s)
     ELSE UNCHANGED <<kbNotes, kbRR, served>>
  /\ blk' = NoBlk
  /\ UNCHANGED <<vizCounter, gainSt>>
  /\ UNCHANGED <<channels, bufferLength, playing, params, killPending,
                 framesToNext, g_count, grains, positions, paramView, loudMap,
                 lastFinite>>

\* case "noteOff"
noteOff(c, s) ==
  /\ IF c >= 0 /\ c <= 2 /\ isFinite(s)
     THEN removeKbNote(c, s)
     ELSE UNCHANGED <<kbNotes, kbRR, served>>
  /\ blk' = NoBlk
  /\ UNCHANGED <<vizCounter, gainSt>>
  /\ UNCHANGED <<channels, bufferLength, playing, params, killPending,
                 framesToNext, g_count, grains, positions, paramView, loudMap,
                 lastFinite>>

\* case "noteOnAll"
noteOnAll(s) ==
  /\ IF isFinite(s)
     THEN setKbState(addKbNoteTo(addKbNoteTo(addKbNoteTo(kbState, 0, s), 1, s), 2, s))
     ELSE UNCHANGED <<kbNotes, kbRR, served>>
  /\ blk' = NoBlk
  /\ UNCHANGED <<vizCounter, gainSt>>
  /\ UNCHANGED <<channels, bufferLength, playing, params, killPending,
                 framesToNext, g_count, grains, positions, paramView, loudMap,
                 lastFinite>>

\* case "noteOffAll"
noteOffAll(s) ==
  /\ IF isFinite(s)
     THEN setKbState(removeKbNoteFrom(removeKbNoteFrom(removeKbNoteFrom(kbState, 0, s), 1, s), 2, s))
     ELSE UNCHANGED <<kbNotes, kbRR, served>>
  /\ blk' = NoBlk
  /\ UNCHANGED <<vizCounter, gainSt>>
  /\ UNCHANGED <<channels, bufferLength, playing, params, killPending,
                 framesToNext, g_count, grains, positions, paramView, loudMap,
                 lastFinite>>

\* case "clearKbNotes": c is d.cursor|0
clearKbNotesFor(c) ==
  /\ IF c >= 0 /\ c <= 2 THEN clearKbNotes(c) ELSE UNCHANGED <<kbNotes, kbRR, served>>
  /\ blk' = NoBlk
  /\ UNCHANGED <<vizCounter, gainSt>>
  /\ UNCHANGED <<channels, bufferLength, playing, params, killPending,
                 framesToNext, g_count, grains, positions, paramView, loudMap,
                 lastFinite>>

\* case "killCursorGrains"
killCursorGrains(c) ==
  /\ IF c >= -1 /\ c <= 2
     THEN IF c = -1
          THEN killPending' = [x \in Cursors |-> TRUE]
          ELSE killPending' = [killPending EXCEPT ![c] = TRUE]
     ELSE UNCHANGED killPending
  /\ blk' = NoBlk
  /\ UNCHANGED <<vizCounter, gainSt>>
  /\ UNCHANGED <<channels, bufferLength, playing, params, kbNotes, kbRR,
                 framesToNext, g_count, grains, served, positions, paramView,
                 loudMap, lastFinite>>

\* d.cursor|0 (ToInt32) of a cursor field hi * 2^32 + lo, lo a signed 32-bit
\* integer: the value modulo 2^32; of a cursor field that is NaN or missing
\* (hi = NaN): 0
ToInt32(cf) == IF cf.hi = NaN THEN 0 ELSE cf.lo

\* case "ping" (posts {type: "ready"}), and a type no case matches
noCase ==
  /\ blk' = NoBlk
  /\ UNCHANGED <<vizCounter, gainSt>>
  /\ UNCHANGED <<channels, bufferLength, playing, params, kbNotes, kbRR,
                 killPending, framesToNext, g_count, grains, served, positions,
                 paramView, loudMap, lastFinite>>

\* port.onmessage = (e) => { const d = e.data; switch (d.type) ... } for the
\* messages that carry a cursor, a semitone or positions, "ping", and the
\* types without a case
onmessage(d) ==
  /\ lastMsg' = d
  /\ CASE d.type = "noteOn"           -> noteOn(ToInt32(d.cursor), d.semis)
       [] d.type = "noteOff"          -> noteOff(ToInt32(d.cursor), d.semis)
       [] d.type = "noteOnAll"        -> noteOnAll(d.semis)
       [] d.type = "noteOffAll"       -> noteOffAll(d.semis)
       [] d.type = "clearKbNotes"     -> clearKbNotesFor(ToInt32(d.cursor))
       [] d.type = "killCursorGrains" -> killCursorGrains(ToInt32(d.cursor))
       [] d.type = "setPositions"     -> setPositions(d.positions)
       [] OTHER                       -> noCase

(***************************************************************************)
(* app/engine/audio-engine.js: ensureAudio() and waitForWorkletReady(),    *)
(* and the two ports between the main thread and the worklet.              *)
(***************************************************************************)
EnsureCalls == 1 .. MaxEnsureCalls
ReadyCallers == 1 .. MaxReadyCallers

\* ensureAudio() up to its first await: if (audioCtx) return; audioCtx =
\* new AudioContext(); ...; await audioWorklet.addModule(...)
ensureAudioStart(c) ==
  /\ ensurePc[c] = "idle"
  /\ IF audioCtx
     THEN /\ ensurePc' = [ensurePc EXCEPT ![c] = "resolved"]
          /\ UNCHANGED audioCtx
     ELSE /\ audioCtx' = TRUE
          /\ ensurePc' = [ensurePc EXCEPT ![c] = "module1"]
  /\ UNCHANGED <<workletNode, recorderNode, wired, workletReadyPromise,
                 resolveWorkletReady, waiters, toWorklet, toMain>>

\* ensureAudio() from its first await to its second: workletNode = new
\* AudioWorkletNode(...); await audioWorklet.addModule(...)
ensureAudioModule1(c) ==
  /\ ensurePc[c] = "module1"
  /\ workletNode' = TRUE
  /\ ensurePc' = [ensurePc EXCEPT ![c] = "module2"]
  /\ UNCHANGED <<audioCtx, recorderNode, wired, workletReadyPromise,
                 resolveWorkletReady, waiters, toWorklet, toMain>>

\* ensureAudio() from its second await to its end: the recorder node, the
\* connections, the onmessage handlers, the parameters (initSAB with
\* hasSAB, else hooks.sendAllCursorParams), setPlaying and setPositions
ensureAudioModule2(c, hasSAB) ==
  /\ ensurePc[c] = "module2"
  /\ recorderNode' = TRUE
  /\ wired' = TRUE
  /\ toWorklet' = toWorklet \o
                   << IF hasSAB THEN "setParamSAB" ELSE "setParamsAll",
                      "setPlaying", "setPositions" >>
  /\ ensurePc' = [ensurePc EXCEPT ![c] = "resolved"]
  /\ UNCHANGED <<audioCtx, workletNode, workletReadyPromise,
                 resolveWorkletReady, waiters, toMain>>

\* waitForWorkletReady() up to the await of its caller
waitForWorkletReady(w) ==
  /\ waiters[w] = "idle"
  /\ IF workletReadyPromise # "null"
     THEN UNCHANGED <<workletReadyPromise, resolveWorkletReady, toWorklet>>
     ELSE /\ workletReadyPromise' = "pending"
          /\ resolveWorkletReady' = TRUE
          /\ toWorklet' = IF workletNode THEN Append(toWorklet, "ping") ELSE toWorklet
  /\ waiters' = [waiters EXCEPT ![w] = "waiting"]
  /\ UNCHANGED <<audioCtx, workletNode, recorderNode, wired, ensurePc, toMain>>

\* the caller's await returns once the promise is resolved
readyAwaited(w) ==
  /\ waiters[w] = "waiting"
  /\ workletReadyPromise = "resolved"
  /\ waiters' = [waiters EXCEPT ![w] = "done"]
  /\ UNCHANGED <<audioCtx, workletNode, recorderNode, wired, workletReadyPromise,
                 resolveWorkletReady, ensurePc, toWorklet, toMain>>

\* The positions the main thread holds (hooks.positionsRef).
positionsRef == << (15 * PosOne) \div 100, PosOne \div 2, (85 * PosOne) \div 100 >>

\* The worklet's port.onmessage takes the oldest message posted to it; a
\* "ping" is answered with one "ready".
workletReceives ==
  /\ toWorklet # <<>>
  /\ toWorklet' = Tail(toWorklet)
  /\ toMain' = IF Head(toWorklet) = "ping" THEN toMain + 1 ELSE toMain
  /\ CASE Head(toWorklet) = "setParamSAB"  -> setParamSAB([c \in Cursors |-> defaultParams])
       [] Head(toWorklet) = "setParamsAll" -> setParamsAll(defaultParams, defaultParams, defaultParams)
       [] Head(toWorklet) = "setPlaying"   -> setPlaying(FALSE)
       [] Head(toWorklet) = "setPositions" -> setPositions(positionsRef)
       [] OTHER                            -> noCase
  /\ UNCHANGED <<audioCtx, workletNode, recorderNode, wired, workletReadyPromise,
                 resolveWorkletReady, ensurePc, waiters>>

\* workletNode.port.onmessage of the main thread, for d.type === "ready";
\* the port delivers once the handler is installed
mainReceivesReady ==
  /\ toMain > 0
  /\ wired
  /\ toMain' = toMain - 1
  /\ IF resolveWorkletReady
     THEN workletReadyPromise' = "resolved" /\ resolveWorkletReady' = FALSE
     ELSE UNCHANGED <<workletReadyPromise, resolveWorkletReady>>
  /\ UNCHANGED <<audioCtx, workletNode, recorderNode, wired, ensurePc, waiters,
                 toWorklet>>

(***************************************************************************)
(* limiter.js.  Samples, the envelope, the ceiling and the trim are in     *)
(* units of 1 / LimScale.  The input levels of LimLevels are multiples of  *)
(* 10, so the trim and the midpoints of truePeak2x are exact; needed and   *)
(* the released envelope are rounded down and the release coefficient up,  *)
(* so the envelope here is never above the one the code computes.          *)
(***************************************************************************)
LimScale == 1000
\* Sample rate the limiter is created with.
LimSampleRate == 1000
\* Number of blocks the limiter is given in one run.
MaxLimBlocks == 3

\* The options the processor passes to createLimiter.
limLookaheadMs == 3
limCeiling == 980
limReleaseMs == 50
limMasterTrim == 800
limExtra == 256
\* Math.max(N, 64) of processLimiter and Math.max(64, extra) of createLimiter
limMinExtra == 64

Abs(x) == IF x >= 0 THEN x ELSE -x
SetMax(S) == CHOOSE x \in S : \A y \in S : y <= x
\* x * e for a sample x and a factor e, the magnitude rounded down
MulScaled(x, e) == IF x >= 0 THEN (x * e) \div LimScale ELSE -(((-x) * e) \div LimScale)

\* rel = Math.exp(-1 / (sampleRate * (releaseMs / 1000))): with
\* y = 1000 / (sampleRate * releaseMs), exp(-y) <= 1 - y + y^2 / 2.
relCoef(sampleRate, releaseMs) ==
  LET d == sampleRate * releaseMs
  IN  Min(LimScale,
          LimScale - ((1000 * LimScale) \div d)
                   + (((500000 * LimScale) \div d) \div d) + 1)

\* createLimiter(sampleRate, opts)
createLimiter(sampleRate) ==
  LET lookahead == Max(1, (sampleRate * limLookaheadMs) \div 1000)
      extra     == Max(limMinExtra, limExtra)
      releaseMs == Max(1, limReleaseMs)
  IN  [lookahead |-> lookahead,
       ceil  |-> limCeiling,
       trim  |-> limMasterTrim,
       rel   |-> relCoef(sampleRate, releaseMs),
       bufL  |-> [i \in 1 .. (lookahead + extra) |-> 0],
       bufR  |-> [i \in 1 .. (lookahead + extra) |-> 0],
       write |-> 0,
       env   |-> LimScale,
       peakOut |-> 0]

\* sanitizeSample(x); finite is Number.isFinite(x)
sanitizeSample(x, finite) ==
  IF ~finite THEN 0
  ELSE IF Abs(x) > 1000000 * LimScale
       THEN (IF x > 0 THEN 1 ELSE -1) * 1000000 * LimScale
       ELSE x

\* truePeak2x(l, r)
truePeak2x(l, r) ==
  LET N == Len(l)
      peaks == { Max(Max(Max(Abs(l[i]), Abs(r[i])), Max(Abs(l[i + 1]), Abs(r[i + 1]))),
                     Max(Abs((l[i] + l[i + 1]) \div 2), Abs((r[i] + r[i + 1]) \div 2)))
                 : i \in 1 .. (N - 1) }
  IN  IF N = 1 THEN Max(Abs(l[1]), Abs(r[1]))
      ELSE IF peaks = {} THEN 0
      ELSE SetMax(peaks)

\* A release that divides by rel and has no cap at 1.
releaseEnvUncapped(env, rel) == (env * LimScale) \div rel
\* s.env = 1 - (1 - s.env) * s.rel, rounded to the next value below
releaseEnv(env, rel) == LimScale - (((LimScale - env) * rel + LimScale - 1) \div LimScale)

\* processLimiter(s, outL, outR): the new state and the block written back.
\* nonFinite: the positions of outL that hold NaN or an infinity.
processLimiter(s, inL, inR, nonFinite) ==
  LET N    == Len(inL)
      \* (0) sanitize
      sL   == [i \in 1 .. N |-> sanitizeSample(inL[i], i \notin nonFinite)]
      sR   == [i \in 1 .. N |-> sanitizeSample(inR[i], TRUE)]
      \* (0.1) ring size safety
      need   == s.lookahead + Max(N, limMinExtra)
      oldLen == Len(s.bufL)
      grow   == oldLen < need
      newLen == IF grow THEN Max(need, oldLen * 2) ELSE oldLen
      rL0  == IF grow
              THEN [i \in 1 .. newLen |->
                      IF i <= oldLen THEN s.bufL[((s.write + i - 1) % oldLen) + 1] ELSE 0]
              ELSE s.bufL
      rR0  == IF grow
              THEN [i \in 1 .. newLen |->
                      IF i <= oldLen THEN s.bufR[((s.write + i - 1) % oldLen) + 1] ELSE 0]
              ELSE s.bufR
      w0   == IF grow THEN 0 ELSE s.write
      \* 1) master trim
      tL   == IF s.trim # LimScale THEN [i \in 1 .. N |-> MulScaled(sL[i], s.trim)] ELSE sL
      tR   == IF s.trim # LimScale THEN [i \in 1 .. N |-> MulScaled(sR[i], s.trim)] ELSE sR
      \* 2) true peak, needed gain
      tp     == truePeak2x(tL, tR)
      ceilc  == Max(LimScale \div 10, Min(LimScale, s.ceil))
      needed == IF tp > 0 THEN Min(LimScale, (ceilc * LimScale) \div tp) ELSE LimScale
      \* 3) write to the ring: sample i goes to (w0 + i) % newLen
      Written2(buf, x) ==
        [k \in 1 .. newLen |->
           LET hits == { i \in 1 .. N : ((w0 + i - 1) % newLen) + 1 = k }
           IN  IF hits = {} THEN buf[k] ELSE x[SetMax(hits)]]
      rL   == Written2(rL0, tL)
      rR   == Written2(rR0, tR)
      w1   == (w0 + N) % newLen
      \* 4) envelope: instant attack, exponential release
      env1 == IF needed < s.env THEN needed ELSE releaseEnv(s.env, s.rel)
      \* 5) delayed read
      read == (w1 - s.lookahead + newLen) % newLen
      oL   == [i \in 1 .. N |-> MulScaled(rL[((read + i - 1) % newLen) + 1], env1)]
      oR   == [i \in 1 .. N |-> MulScaled(rR[((read + i - 1) % newLen) + 1], env1)]
  IN  [s    |-> [s EXCEPT !.bufL = rL, !.bufR = rR, !.write = w1, !.env = env1,
                          !.peakOut = (tp * env1) \div LimScale],
       outL |-> oL,
       outR |-> oR]

\* The levels of the input samples, and the blocks made of them: a constant
\* level, or a square wave alternating between +v and -v, on both channels,
\* or a left channel of non-finite samples beside a full-scale right channel.
LimLevels == {0, 500, 1000, 5000}
LimSizes == {1, 2, 5}
LimInputs ==
  { [L |-> [i \in 1 .. n |-> v], R |-> [i \in 1 .. n |-> v], nonFinite |-> {}]
    : v \in LimLevels, n \in LimSizes }
  \cup
  { [L |-> [i \in 1 .. n |-> IF i % 2 = 1 THEN v ELSE -v],
     R |-> [i \in 1 .. n |-> IF i % 2 = 1 THEN v ELSE -v], nonFinite |-> {}]
    : v \in LimLevels, n \in LimSizes }
  \cup
  { [L |-> [i \in 1 .. n |-> 0], R |-> [i \in 1 .. n |-> 1000], nonFinite |-> 1 .. n]
    : n \in LimSizes }

\* The frames a block leaves in the ring: sanitized, then trimmed.
trimmedBlock(s, x, nonFinite) ==
  [i \in 1 .. Len(x) |->
     LET v == sanitizeSample(x[i], i \notin nonFinite)
     IN  IF s.trim # LimScale THEN MulScaled(v, s.trim) ELSE v]

limit(b) ==
  /\ limBlocks < MaxLimBlocks
  /\ LET r == processLimiter(lim, b.L, b.R, b.nonFinite)
     IN  /\ lim' = r.s
         /\ limOut' = [L |-> r.outL, R |-> r.outR]
  /\ limBlocks' = limBlocks + 1
  /\ limHist' = [L |-> limHist.L \o trimmedBlock(lim, b.L, b.nonFinite),
                 R |-> limHist.R \o trimmedBlock(lim, b.R, {})]
  /\ limIn' = b

(***************************************************************************)
(* Initial state: the processor as its constructor leaves it.              *)
(***************************************************************************)
EngineInit ==
  /\ channels = 0
  /\ bufferLength = 0
  /\ playing = FALSE
  /\ params = [c \in Cursors |-> defaultParams]
  /\ kbNotes = [c \in Cursors |-> <<>>]
  /\ kbRR = [c \in Cursors |-> 0]
  /\ killPending = [c \in Cursors |-> FALSE]
  /\ framesToNext = [c \in Cursors |-> 0]
  /\ g_count = 0
  /\ grains = <<>>
  /\ served = [c \in Cursors |-> <<>>]
  /\ blk = NoBlk
  /\ positions = initialPositions
  /\ paramView = NoView
  /\ loudMap = NoMap
  /\ lastFinite = [c \in Cursors |-> defaultParams]
  /\ lastMsg = NoMsg
  /\ vizCounter = 0
  /\ gainSt = gainInit

LimInit ==
  /\ lim = createLimiter(LimSampleRate)
  /\ limOut = [L |-> <<>>, R |-> <<>>]
  /\ limBlocks = 0
  /\ limHist = [L |-> <<>>, R |-> <<>>]
  /\ limIn = [L |-> <<>>, R |-> <<>>, nonFinite |-> {}]

AppInit ==
  /\ audioCtx = FALSE
  /\ workletNode = FALSE
  /\ recorderNode = FALSE
  /\ wired = FALSE
  /\ workletReadyPromise = "null"
  /\ resolveWorkletReady = FALSE
  /\ ensurePc = [c \in EnsureCalls |-> "idle"]
  /\ waiters = [w \in ReadyCallers |-> "idle"]
  /\ toWorklet = <<>>
  /\ toMain = 0

(***************************************************************************)
(* The note input of the main thread.                                      *)
(***************************************************************************)
MidiKeys == {60, 67}
PianoCodes == {"KeyA"}
\* semisForCode(c) of the piano's note key at octave 0
semisForCode(code) == 0
\* no entry in state.notes
NoNote == [mode |-> "none", cursor |-> 0, semis |-> 0]
\* no entry in modeByCode / cursorByCode / semisByCode
KeyUp == [mode |-> "up", cursor |-> 0, semis |-> 0]
\* The targets of the note callbacks: all cursors, or one cursor, with a
\* semitone.
Targets ==
  { [mode |-> m, cursor |-> c, semis |-> sm] :
      m \in {"all", "single"}, c \in Cursors, sm \in {n - 60 : n \in MidiKeys} }
targetOf(info) == [info EXCEPT !.cursor = IF info.mode = "all" THEN 0 ELSE @]

\* What the keyboard glue holds while a handler runs: kbState's counters,
\* the pending calls, the messages posted and the callback balance.
glueNow == [held |-> kbHeld, pending |-> kbPending, sent |-> <<>>,
            balance |-> midiObs.balance, ensure |-> FALSE]

\* getWorkletNode()?.port.postMessage(m)
postToWorklet(g, m) ==
  IF workletNode THEN [g EXCEPT !.sent = Append(@, m)] ELSE g

\* kbNoteOnSingle(cursorIdx, semis) up to its await: ensureAudio() returns
\* at once when audioCtx is set and starts the initialization otherwise
kbNoteOnSingle(g, cursorIdx, semis) ==
  [g EXCEPT !.pending = Append(@, [msg |-> [type |-> "noteOn", cursor |-> cursorIdx,
                                             semis |-> semis],
                                    awaitsInit |-> ~audioCtx]),
            !.ensure = ~audioCtx]
\* kbNoteOnAll(semis) up to its await
kbNoteOnAll(g, semis) ==
  [g EXCEPT !.pending = Append(@, [msg |-> [type |-> "noteOnAll", cursor |-> 0,
                                             semis |-> semis],
                                    awaitsInit |-> ~audioCtx]),
            !.ensure = ~audioCtx]
\* kbNoteOffSingle(cursorIdx, semis)
kbNoteOffSingle(g, cursorIdx, semis) ==
  LET g1 == [g EXCEPT !.held.byCursor[cursorIdx] = Max(0, @ - 1)]
  IN  IF ~holdState[cursorIdx]
      THEN postToWorklet(g1, [type |-> "noteOff", cursor |-> cursorIdx, semis |-> semis])
      ELSE g1
\* kbNoteOffAll(semis)
kbNoteOffAll(g, semis) ==
  postToWorklet([g EXCEPT !.held.all = Max(0, @ - 1)],
                [type |-> "noteOffAll", cursor |-> 0, semis |-> semis])

\* The MIDI controller's allOn / singleOn and allOff / singleOff: the
\* callback is called and the call is counted for its target.
midiOn(g, info) ==
  LET h == [g EXCEPT !.balance[targetOf(info)] = @ + 1]
  IN  IF info.mode = "all" THEN kbNoteOnAll(h, info.semis)
      ELSE kbNoteOnSingle(h, info.cursor, info.semis)
midiOffToActive(g, info) ==
  LET now == [info EXCEPT !.mode = IF playAll THEN "all" ELSE "single",
                          !.cursor = activeCursor]
      h == [g EXCEPT !.balance[targetOf(now)] = @ - 1]
  IN  IF now.mode = "all" THEN kbNoteOffAll(h, now.semis)
      ELSE kbNoteOffSingle(h, now.cursor, now.semis)
midiOff(g, info) ==
  LET h == [g EXCEPT !.balance[targetOf(info)] = @ - 1]
  IN  IF info.mode = "all" THEN kbNoteOffAll(h, info.semis)
      ELSE kbNoteOffSingle(h, info.cursor, info.semis)

\* clampCursor(getActiveCursor())
safeGetActiveCursor == Max(0, Min(2, activeCursor))

\* What a handler that ran the glue calls g leaves behind; a call of
\* ensureAudio() that finds no audioCtx starts the initialization (the
\* first call of EnsureCalls).
glueDone(g) ==
  /\ kbHeld' = g.held
  /\ kbPending' = g.pending
  /\ glueSent' = g.sent
  /\ IF g.ensure
     THEN ensureAudioStart(1)
     ELSE UNCHANGED appVars

\* handleNoteOn(channel, midiNote, velocity)
handleNoteOn(key) ==
  LET existing == midiNotes[key]
      g1 == IF existing.mode # "none" THEN midiOff(glueNow, existing) ELSE glueNow
      info == [mode |-> IF playAll THEN "all" ELSE "single",
               cursor |-> IF playAll THEN 0 ELSE safeGetActiveCursor,
               semis |-> key - 60]
      g2 == midiOn(g1, info)
  IN  /\ midiNotes' = [midiNotes EXCEPT ![key] = info]
      /\ midiObs' = [down |-> midiObs.down \cup {key}, balance |-> g2.balance]
      /\ glueDone(g2)
      /\ UNCHANGED <<holdState, holdToggleBusy, activeCursor, playAll, pianoKeys, altDown>>
\* handleNoteOff(channel, midiNote)
handleNoteOff(key) ==
  LET info == midiNotes[key]
      g1 == IF info.mode # "none" THEN midiOff(glueNow, info) ELSE glueNow
  IN  /\ midiNotes' = [midiNotes EXCEPT ![key] = NoNote]
      /\ midiObs' = [down |-> midiObs.down \ {key}, balance |-> g1.balance]
      /\ glueDone(g1)
      /\ UNCHANGED <<holdState, holdToggleBusy, activeCursor, playAll, pianoKeys, altDown>>
\* handleMidiMessage(ev) with ev.data = [status | channel, key, velocity]
handleMidiMessage(status, channel, key, velocity) ==
  IF channel = 9 \/ status \notin {144, 128}
  THEN UNCHANGED <<glueVars, appVars>>
  ELSE IF status = 144 /\ velocity > 0
  THEN handleNoteOn(key)
  ELSE handleNoteOff(key)
\* api.setPlayAllCursors(on)
setPlayAllCursors(on) ==
  /\ playAll' = on
  /\ glueSent' = <<>>
  /\ UNCHANGED <<holdState, holdToggleBusy, activeCursor, kbHeld, kbPending,
                 midiNotes, pianoKeys, altDown, midiObs, appVars>>
\* the user selects cursor c
setActiveCursor(c) ==
  /\ activeCursor' = c
  /\ glueSent' = <<>>
  /\ UNCHANGED <<holdState, holdToggleBusy, kbHeld, kbPending, midiNotes,
                 playAll, pianoKeys, altDown, midiObs, appVars>>

\* The piano's onKeyDown for a note key; altKey is e.altKey.
onKeyDown(code, altKey) ==
  IF pianoKeys[code].mode # "up"
  THEN UNCHANGED <<glueVars, appVars>>
  ELSE LET wantAll == altDown \/ altKey
           info == [mode |-> IF wantAll THEN "all" ELSE "single",
                    cursor |-> IF wantAll THEN 0 ELSE activeCursor,
                    semis |-> semisForCode(code)]
           g == IF wantAll THEN kbNoteOnAll(glueNow, info.semis)
                ELSE kbNoteOnSingle(glueNow, info.cursor, info.semis)
       IN  /\ pianoKeys' = [pianoKeys EXCEPT ![code] = info]
           /\ glueDone(g)
           /\ UNCHANGED <<holdState, holdToggleBusy, activeCursor, midiNotes,
                          playAll, midiObs, altDown>>
\* The piano's onKeyUp for a note key.
onKeyUp(code) ==
  IF pianoKeys[code].mode = "up"
  THEN UNCHANGED <<glueVars, appVars>>
  ELSE LET info == pianoKeys[code]
           g == IF info.mode = "all" THEN kbNoteOffAll(glueNow, info.semis)
                ELSE kbNoteOffSingle(glueNow, info.cursor, info.semis)
       IN  /\ pianoKeys' = [pianoKeys EXCEPT ![code] = KeyUp]
           /\ glueDone(g)
           /\ UNCHANGED <<holdState, holdToggleBusy, activeCursor, midiNotes,
                          playAll, midiObs, altDown>>

\* The piano's onKeyDown for Alt: every key that is down in mode "single"
\* is switched to "all" (noteOff of its cursor, then noteOnAll).
RECURSIVE altUpgrade(_, _)
altUpgrade(g, codes) ==
  IF codes = {} THEN g
  ELSE LET code == CHOOSE c \in codes : TRUE
           info == pianoKeys[code]
       IN  altUpgrade(kbNoteOnAll(kbNoteOffSingle(g, info.cursor, info.semis), info.semis),
                      codes \ {code})
onAltDown ==
  IF altDown
  THEN UNCHANGED <<glueVars, appVars>>
  ELSE LET singles == { code \in PianoCodes : pianoKeys[code].mode = "single" }
       IN  /\ altDown' = TRUE
           /\ pianoKeys' = [code \in PianoCodes |->
                              IF code \in singles
                              THEN [pianoKeys[code] EXCEPT !.mode = "all", !.cursor = 0]
                              ELSE pianoKeys[code]]
           /\ glueDone(altUpgrade(glueNow, singles))
           /\ UNCHANGED <<holdState, holdToggleBusy, activeCursor, midiNotes,
                          playAll, midiObs>>
\* The piano's onKeyUp for Alt: every key that is down in mode "all" is
\* switched to "single" on the active cursor (noteOffAll, then noteOn).
RECURSIVE altDowngrade(_, _)
altDowngrade(g, codes) ==
  IF codes = {} THEN g
  ELSE LET code == CHOOSE c \in codes : TRUE
           info == pianoKeys[code]
       IN  altDowngrade(kbNoteOnSingle(kbNoteOffAll(g, info.semis), activeCursor, info.semis),
                        codes \ {code})
onAltUp ==
  IF ~altDown
  THEN UNCHANGED <<glueVars, appVars>>
  ELSE LET alls == { code \in PianoCodes : pianoKeys[code].mode = "all" }
       IN  /\ altDown' = FALSE
           /\ pianoKeys' = [code \in PianoCodes |->
                              IF code \in alls
                              THEN [pianoKeys[code] EXCEPT !.mode = "single",
                                                           !.cursor = activeCursor]
                              ELSE pianoKeys[code]]
           /\ glueDone(altDowngrade(glueNow, alls))
           /\ UNCHANGED <<holdState, holdToggleBusy, activeCursor, midiNotes,
                          playAll, midiObs>>

\* kbNoteOnSingle / kbNoteOnAll after the await, for the pending call i
kbNoteOnResumes(i) ==
  LET call == kbPending[i]
      g0 == [glueNow EXCEPT !.pending = RemoveAt(kbPending, i)]
      g1 == IF call.msg.type = "noteOnAll"
            THEN [g0 EXCEPT !.held.all = @ + 1]
            ELSE [g0 EXCEPT !.held.byCursor[call.msg.cursor] = Max(0, @ + 1)]
      g2 == postToWorklet(g1, call.msg)
  IN  /\ call.awaitsInit => ensurePc[1] = "resolved"
      /\ kbHeld' = g2.held
      /\ kbPending' = g2.pending
      /\ glueSent' = g2.sent
      /\ UNCHANGED <<holdState, holdToggleBusy, activeCursor, midiNotes,
                     playAll, pianoKeys, altDown, midiObs, appVars>>

\* toggleHoldFor(cursorIdx)
toggleHoldFor(cursorIdx) ==
  IF holdToggleBusy
  THEN UNCHANGED <<glueVars, appVars>>
  ELSE LET next == ~holdState[cursorIdx]
           g == IF next THEN glueNow
                ELSE postToWorklet(glueNow, [type |-> "clearKbNotes",
                                             cursor |-> cursorIdx, semis |-> 0])
       IN  /\ holdToggleBusy' = TRUE
           /\ holdState' = [holdState EXCEPT ![cursorIdx] = next]
           /\ glueSent' = g.sent
           /\ UNCHANGED <<activeCursor, kbHeld, kbPending, midiNotes, playAll,
                          pianoKeys, altDown, midiObs, appVars>>
\* setTimeout(() => { __holdToggleBusy = false; }, HOLD_TOGGLE_DEBOUNCE_MS)
holdToggleTimeout ==
  /\ holdToggleBusy
  /\ holdToggleBusy' = FALSE
  /\ glueSent' = <<>>
  /\ UNCHANGED <<holdState, activeCursor, kbHeld, kbPending, midiNotes,
                 playAll, pianoKeys, altDown, midiObs, appVars>>

GlueInit ==
  /\ holdState = [c \in Cursors |-> FALSE]
  /\ holdToggleBusy = FALSE
  /\ activeCursor = 0
  /\ kbHeld = [all |-> 0, byCursor |-> [c \in Cursors |-> 0]]
  /\ kbPending = <<>>
  /\ glueSent = <<>>
  /\ midiNotes = [k \in MidiKeys |-> NoNote]
  /\ playAll = FALSE
  /\ pianoKeys = [code \in PianoCodes |-> KeyUp]
  /\ midiObs = [down |-> {}, balance |-> [t \in Targets |-> 0]]
  /\ altDown = FALSE

PortInit == portQueue = <<>>

MicInit ==
  /\ micDownM = FALSE
  /\ micPointer = FALSE
  /\ micBusy = FALSE
  /\ micStart = [pc |-> "idle", guarded |-> FALSE]
  /\ micStop = [pc |-> "idle", guarded |-> FALSE]
  /\ micCtrl = FALSE
  /\ micActive = FALSE

\* positions = [0.15, 0.50, 0.85], dragState.which = -1, dragLock all false,
\* no message in flight
MarkerInit ==
  markers = [positions |-> [c \in Cursors |-> ((15 + 35 * c) * PosOne) \div 100],
             which |-> -1,
             lock |-> [c \in Cursors |-> FALSE],
             toWorklet |-> <<>>,
             toMain |-> <<>>]

\* Nothing has been posted yet.
NoObs == [sincePos |-> -1, gapPos |-> -1, sinceTel |-> -1, gapTel |-> -1]
ObsInit == vizObs = NoObs

\* No rec-start has been seen yet.
NoRecObs == [started |-> FALSE, M |-> [hi |-> 0, lo |-> 0],
             total |-> 0, autostops |-> 0, stopped |-> FALSE, late |-> 0]
\* RecorderProcessor.constructor
RecInit ==
  /\ recording = FALSE
  /\ maxFrames = 0
  /\ recFrames = 0
  /\ recObs = NoRecObs

\* No call yet.
NoWin == [called |-> FALSE, pos |-> 0, len |-> 0, env |-> 0, isZero |-> FALSE,
          mirror |-> 0, mirrorIsZero |-> FALSE]
PureInit == win = NoWin

Init ==
  /\ EngineInit /\ LimInit /\ AppInit /\ ObsInit /\ RecInit /\ GlueInit /\ PureInit
  /\ PortInit /\ MicInit /\ MarkerInit

(***************************************************************************)
(* Spec: the message handlers and process() with long blocks.              *)
(***************************************************************************)
Buffers == { <<0, 0>>, <<2, 0>>, <<2, BufLen>> }
silentParams == [density |-> 0, durMs |-> 200, scanSpeed |-> 0]

Process == \E frames \in {LongBlock} : process(frames, {LongBlock}) /\ UNCHANGED <<lastMsg, outsideEngine>>
SetBuffer == \E b \in Buffers : setBuffer(b[1], b[2]) /\ UNCHANGED <<lastMsg, outsideEngine>>
SetParamsFor == \E p \in {defaultParams, silentParams} : setParamsFor(0, p) /\ UNCHANGED <<lastMsg, outsideEngine>>
SetPlaying == \E v \in BOOLEAN : setPlaying(v) /\ UNCHANGED <<lastMsg, outsideEngine>>
NoteOn == \E c \in {0, 1} : noteOn(c, 0) /\ UNCHANGED <<lastMsg, outsideEngine>>
NoteOff == \E c \in {0, 1} : noteOff(c, 0) /\ UNCHANGED <<lastMsg, outsideEngine>>
KillCursorGrains == \E c \in {-1, 1} : killCursorGrains(c) /\ UNCHANGED <<lastMsg, outsideEngine>>

Next ==
  \/ Process
  \/ SetBuffer
  \/ SetParamsFor
  \/ SetPlaying
  \/ NoteOn
  \/ NoteOff
  \/ KillCursorGrains

Spec == Init /\ [][Next]_vars

(***************************************************************************)
(* SpecPool: the grain pool under pressure.  Every interval draw is        *)
(* PoolInterval frames and a block is two intervals long, so a scheduled   *)
(* cursor calls _spawnGrain twice per block; two notes can be held on      *)
(* cursor A.                                                               *)
(***************************************************************************)
PoolInterval == 6

PoolProcess == process(2 * PoolInterval, {PoolInterval}) /\ UNCHANGED <<lastMsg, outsideEngine>>
PoolSetBuffer == \E b \in { <<0, 0>>, <<2, BufLen>> } : setBuffer(b[1], b[2]) /\ UNCHANGED <<lastMsg, outsideEngine>>
PoolSetParamsFor == \E p \in {defaultParams, silentParams} : setParamsFor(2, p) /\ UNCHANGED <<lastMsg, outsideEngine>>
PoolSetPlaying == \E v \in BOOLEAN : setPlaying(v) /\ UNCHANGED <<lastMsg, outsideEngine>>
PoolNoteOn == \E s \in Semis : noteOn(0, s) /\ UNCHANGED <<lastMsg, outsideEngine>>
PoolNoteOff == \E s \in Semis : noteOff(0, s) /\ UNCHANGED <<lastMsg, outsideEngine>>

PoolNext ==
  \/ PoolProcess
  \/ PoolSetBuffer
  \/ PoolSetParamsFor
  \/ PoolSetPlaying
  \/ PoolNoteOn
  \/ PoolNoteOff

SpecPool == Init /\ [][PoolNext]_vars

(***************************************************************************)
(* SpecSched: one cursor scheduled over blocks longer than the per-block   *)
(* spawn limit, with interval draws of one frame possible.                 *)
(***************************************************************************)
SchedProcess == process(LongBlock, {1, MaxInterval}) /\ UNCHANGED <<lastMsg, outsideEngine>>
SchedSetBuffer == setBuffer(2, BufLen) /\ UNCHANGED <<lastMsg, outsideEngine>>
SchedNoteOn == noteOn(0, 0) /\ UNCHANGED <<lastMsg, outsideEngine>>
SchedNoteOff == noteOff(0, 0) /\ UNCHANGED <<lastMsg, outsideEngine>>

SchedNext ==
  \/ SchedProcess
  \/ SchedSetBuffer
  \/ SchedNoteOn
  \/ SchedNoteOff

SpecSched == Init /\ [][SchedNext]_vars

(***************************************************************************)
(* SpecKill: soft kill with blocks shorter than the kill tail.  process()  *)
(* is called by the audio thread for every block for as long as the node   *)
(* lives, which SpecKillFair states as weak fairness of KillProcess.       *)
(***************************************************************************)
KillProcess == process(ShortBlock, {MaxInterval}) /\ UNCHANGED <<lastMsg, outsideEngine>>
KillSetBuffer == \E b \in { <<0, 0>>, <<2, BufLen>> } : setBuffer(b[1], b[2]) /\ UNCHANGED <<lastMsg, outsideEngine>>
KillNoteOn == noteOn(1, 0) /\ UNCHANGED <<lastMsg, outsideEngine>>
KillNoteOff == noteOff(1, 0) /\ UNCHANGED <<lastMsg, outsideEngine>>
KillKill == \E c \in {-1, 1} : killCursorGrains(c) /\ UNCHANGED <<lastMsg, outsideEngine>>

KillNext ==
  \/ KillProcess
  \/ KillSetBuffer
  \/ KillNoteOn
  \/ KillNoteOff
  \/ KillKill

SpecKill == Init /\ [][KillNext]_vars
SpecKillFair == Init /\ [][KillNext]_vars /\ WF_vars(KillProcess)

(***************************************************************************)
(* SpecLim: the limiter given MaxLimBlocks blocks.                         *)
(***************************************************************************)
(* The note messages: two semitones and NaN, on cursors A and B and on     *)
(* all three, with blocks of ShortBlock frames in between; no source       *)
(* buffer is installed.                                                    *)
(***************************************************************************)
Cur(n) == [hi |-> 0, lo |-> n]
NoteMessages ==
  [type : {"noteOn", "noteOff"}, cursor : {Cur(0), Cur(1)},
   semis : Semis \cup {NaN}, positions : {<<>>}]
  \cup [type : {"noteOnAll", "noteOffAll"}, cursor : {Cur(0)}, semis : Semis,
         positions : {<<>>}]
  \cup [type : {"clearKbNotes"}, cursor : {Cur(0), Cur(1)}, semis : {0},
         positions : {<<>>}]

NotesProcess == process(ShortBlock, {MaxInterval}) /\ lastMsg' = NoMsg /\ UNCHANGED outsideEngine
NotesMessage == \E d \in NoteMessages : onmessage(d) /\ UNCHANGED outsideEngine

NotesNext == NotesProcess \/ NotesMessage
SpecNotes == Init /\ [][NotesNext]_vars

(***************************************************************************)
(* A chromatic run: each noteOn of a cursor, and each noteOnAll, carries   *)
(* the lowest semitone of 0 .. PolyNotes-1 that has not been sent that way *)
(* yet.                                                                    *)
(***************************************************************************)
PolyNoteOn ==
  \E c \in {0, 1} :
     /\ Len(kbNotes[c]) < PolyNotes
     /\ noteOn(c, Len(kbNotes[c]))
     /\ UNCHANGED <<lastMsg, outsideEngine>>
PolyNoteOnAll ==
  /\ Len(kbNotes[2]) < PolyNotes
  /\ noteOnAll(Len(kbNotes[2]))
  /\ UNCHANGED <<lastMsg, outsideEngine>>

PolyNext == PolyNoteOn \/ PolyNoteOnAll
SpecPoly == Init /\ [][PolyNext]_vars

(***************************************************************************)
(* Envelopes: a note on cursor B, whose grains last 30 frames (default),   *)
(* one frame (no attack and no release) or for ever (an infinite attack),  *)
(* soft kills, and blocks of ShortBlock frames.                            *)
(***************************************************************************)
shortestParams == [density |-> 10, durMs |-> 0, scanSpeed |-> 0]
endlessParams == [density |-> 10, durMs |-> Infinity, scanSpeed |-> 0]

EnvProcess == process(ShortBlock, {MaxInterval}) /\ UNCHANGED <<lastMsg, outsideEngine>>
EnvSetBuffer == \E b \in { <<0, 0>>, <<2, BufLen>> } : setBuffer(b[1], b[2]) /\ UNCHANGED <<lastMsg, outsideEngine>>
EnvSetParamsFor ==
  \E p \in {defaultParams, shortestParams, endlessParams} :
     setParamsFor(1, p) /\ UNCHANGED <<lastMsg, outsideEngine>>
EnvNoteOn == noteOn(1, 0) /\ UNCHANGED <<lastMsg, outsideEngine>>
EnvNoteOff == noteOff(1, 0) /\ UNCHANGED <<lastMsg, outsideEngine>>
EnvKill == killCursorGrains(1) /\ UNCHANGED <<lastMsg, outsideEngine>>

EnvNext ==
  \/ EnvProcess
  \/ EnvSetBuffer
  \/ EnvSetParamsFor
  \/ EnvNoteOn
  \/ EnvNoteOff
  \/ EnvKill
SpecEnv == Init /\ [][EnvNext]_vars

(***************************************************************************)
(* Positions: setPositions messages with one, two or three positions (a    *)
(* negative one, one above 1, NaN), a scan speed for cursor A, and blocks  *)
(* of ShortBlock frames.                                                   *)
(***************************************************************************)
PosValues == {0 - 3, PosOne + 1, NaN}
PosMessages ==
  [type : {"setPositions"}, cursor : {Cur(0)}, semis : {0},
   positions : UNION { { <<v>>, <<v, PosOne>>, <<v, PosOne, NaN>> } : v \in PosValues }]
scanParams(v) == [density |-> 10, durMs |-> 200, scanSpeed |-> v]

PosProcess == process(ShortBlock, {MaxInterval}) /\ lastMsg' = NoMsg /\ UNCHANGED outsideEngine
PosMessage == \E d \in PosMessages : onmessage(d) /\ UNCHANGED outsideEngine
PosSetParamsFor ==
  \E v \in {0, 0 - 2} : setParamsFor(0, scanParams(v)) /\ lastMsg' = NoMsg /\ UNCHANGED outsideEngine

PosNext == PosProcess \/ PosMessage \/ PosSetParamsFor
SpecPos == Init /\ [][PosNext]_vars

(***************************************************************************)
(* Loudness compensation: a note on cursor A, loudness maps of no or one   *)
(* window, and blocks of two intervals.                                    *)
(***************************************************************************)
LoudMaps ==
  { [has |-> FALSE, rms |-> <<>>, win |-> 1],
    [has |-> TRUE, rms |-> <<>>, win |-> BufLen],
    [has |-> TRUE, rms |-> <<1200>>, win |-> BufLen],
    [has |-> TRUE, rms |-> <<0>>, win |-> BufLen] }

LoudProcess == process(2 * PoolInterval, {PoolInterval}) /\ UNCHANGED <<lastMsg, outsideEngine>>
LoudSetBuffer == setBuffer(2, BufLen) /\ UNCHANGED <<lastMsg, outsideEngine>>
LoudSetLoudnessMap == \E m \in LoudMaps : setLoudnessMap(m) /\ UNCHANGED <<lastMsg, outsideEngine>>
LoudNoteOn == noteOn(0, 0) /\ UNCHANGED <<lastMsg, outsideEngine>>
LoudNoteOff == noteOff(0, 0) /\ UNCHANGED <<lastMsg, outsideEngine>>

LoudNext ==
  \/ LoudProcess
  \/ LoudSetBuffer
  \/ LoudSetLoudnessMap
  \/ LoudNoteOn
  \/ LoudNoteOff
SpecLoud == Init /\ [][LoudNext]_vars

(***************************************************************************)
(* Messages with fields out of range: note and kill messages for cursor B  *)
(* and for the cursor fields -2, -1, 3, 2^32 and NaN, with the semitones 0 *)
(* and NaN, "ping", and a message of a type without a case, between blocks *)
(* of LongBlock frames.                                                    *)
(***************************************************************************)
BadCursors == { Cur(0 - 2), Cur(0 - 1), Cur(3), [hi |-> 1, lo |-> 0], [hi |-> NaN, lo |-> 0] }
RangeMessages ==
  [type : {"noteOn", "noteOff"}, cursor : {Cur(1)} \cup BadCursors,
   semis : {0, NaN}, positions : {<<>>}]
  \cup [type : {"clearKbNotes", "killCursorGrains"}, cursor : {Cur(1)} \cup BadCursors,
         semis : {0}, positions : {<<>>}]
  \cup [type : {"noteOnAll", "noteOffAll"}, cursor : {Cur(0)}, semis : {NaN},
         positions : {<<>>}]
  \cup [type : {"ping", "unknown"}, cursor : {Cur(0)}, semis : {0}, positions : {<<>>}]

MsgProcess == process(LongBlock, {LongBlock}) /\ lastMsg' = NoMsg /\ UNCHANGED outsideEngine
MsgSetBuffer == setBuffer(2, BufLen) /\ lastMsg' = NoMsg /\ UNCHANGED outsideEngine
MsgMessage == \E d \in RangeMessages : onmessage(d) /\ UNCHANGED outsideEngine

MsgNext == MsgProcess \/ MsgSetBuffer \/ MsgMessage
SpecMsg == Init /\ [][MsgNext]_vars

(***************************************************************************)
(* Parameters: densities 10, 5 and NaN for cursor A, by message and        *)
(* through the shared array, and blocks of ShortBlock frames.              *)
(***************************************************************************)
densityParams(v) == [density |-> v, durMs |-> 200, scanSpeed |-> 0]
ParamChoices == { densityParams(v) : v \in {10, 5, NaN} }

ParProcess == process(ShortBlock, {MaxInterval}) /\ UNCHANGED <<lastMsg, outsideEngine>>
ParSetParamsFor == \E p \in ParamChoices : setParamsFor(0, p) /\ UNCHANGED <<lastMsg, outsideEngine>>
ParSetParamsAll ==
  \E p \in ParamChoices : setParamsAll(defaultParams, p, defaultParams) /\ UNCHANGED <<lastMsg, outsideEngine>>
ParSetParamSAB ==
  setParamSAB([c \in Cursors |-> defaultParams]) /\ UNCHANGED <<lastMsg, outsideEngine>>
ParWriteParamsToSAB ==
  \E p \in ParamChoices : writeParamsToSAB(0, p) /\ UNCHANGED <<lastMsg, outsideEngine>>

ParNext ==
  \/ ParProcess
  \/ ParSetParamsFor
  \/ ParSetParamsAll
  \/ ParSetParamSAB
  \/ ParWriteParamsToSAB
SpecParams == Init /\ [][ParNext]_vars

(***************************************************************************)
(* A source of one frame: buffers of one frame with one or two channels,   *)
(* the play state, a note on cursor A, and blocks of two intervals.        *)
(***************************************************************************)
OneProcess == process(2 * PoolInterval, {PoolInterval}) /\ UNCHANGED <<lastMsg, outsideEngine>>
OneSetBuffer == \E chs \in {1, 2} : setBuffer(chs, 1) /\ UNCHANGED <<lastMsg, outsideEngine>>
OneSetParamsFor ==
  \E p \in {defaultParams, shortestParams} : setParamsFor(0, p) /\ UNCHANGED <<lastMsg, outsideEngine>>
OneSetPlaying == \E v \in BOOLEAN : setPlaying(v) /\ UNCHANGED <<lastMsg, outsideEngine>>
OneNoteOn == noteOn(0, 0) /\ UNCHANGED <<lastMsg, outsideEngine>>
OneNoteOff == noteOff(0, 0) /\ UNCHANGED <<lastMsg, outsideEngine>>

OneNext ==
  \/ OneProcess
  \/ OneSetBuffer
  \/ OneSetParamsFor
  \/ OneSetPlaying
  \/ OneNoteOn
  \/ OneNoteOff
SpecOne == Init /\ [][OneNext]_vars

(***************************************************************************)
(* The audio engine of the main thread: calls of ensureAudio() and of      *)
(* waitForWorkletReady() in any order, and the delivery of messages.       *)
(***************************************************************************)
AppEnsureAudioStart ==
  \E c \in EnsureCalls : ensureAudioStart(c) /\ UNCHANGED outsideApp
AppEnsureAudioModule1 ==
  \E c \in EnsureCalls : ensureAudioModule1(c) /\ UNCHANGED outsideApp
AppEnsureAudioModule2 ==
  \E c \in EnsureCalls : \E hasSAB \in BOOLEAN :
     ensureAudioModule2(c, hasSAB) /\ UNCHANGED outsideApp
AppWaitForWorkletReady ==
  \E w \in ReadyCallers : waitForWorkletReady(w) /\ UNCHANGED outsideApp
AppReadyAwaited ==
  \E w \in ReadyCallers : readyAwaited(w) /\ UNCHANGED outsideApp
AppWorkletReceives == workletReceives /\ UNCHANGED <<lastMsg, outsideBoth>>
AppMainReceivesReady == mainReceivesReady /\ UNCHANGED outsideApp

AppNext ==
  \/ AppEnsureAudioStart
  \/ AppEnsureAudioModule1
  \/ AppEnsureAudioModule2
  \/ AppWaitForWorkletReady
  \/ AppReadyAwaited
  \/ AppWorkletReceives
  \/ AppMainReceivesReady
SpecApp == Init /\ [][AppNext]_vars
\* ensureAudio() is called (so that the worklet node comes to exist), its
\* awaits return, posted messages are delivered and resolved promises
\* resume their awaiters
SpecAppFair ==
  /\ Init /\ [][AppNext]_vars
  /\ WF_vars(AppEnsureAudioStart)
  /\ WF_vars(AppEnsureAudioModule1)
  /\ WF_vars(AppEnsureAudioModule2)
  /\ WF_vars(AppReadyAwaited)
  /\ WF_vars(AppWorkletReceives)
  /\ WF_vars(AppMainReceivesReady)

(***************************************************************************)
Limit == \E b \in LimInputs : limit(b) /\ UNCHANGED outsideLim

LimNext == Limit

SpecLim == Init /\ [][LimNext]_vars

(***************************************************************************)
(* Properties.                                                             *)
(***************************************************************************)
\* C1: in every reachable state 0 <= g_count <= MAX_GRAINS, and a
\* _spawnGrain call made while g_count = MAX_GRAINS is dropped: g_count and
\* every pooled grain record are as they were before the call.
PoolWithinCapacity ==
  /\ g_count >= 0
  /\ g_count <= MAX_GRAINS
  /\ blk.fullKept

\* A block in which _spawnGrain was called on a full pool.
PoolFullSpawnSeen ==
  /\ blk.ran
  /\ blk.fullHits > 0
  /\ \E c \in Cursors : blk.attempts[c] > blk.spawned[c]

\* C2: while no source buffer is installed (no channels, or bufferLength
\* 0), a process() call leaves 0 in every output sample of both channels,
\* whatever messages came before.
SilentWithoutBuffer ==
  (blk.frames > 0 /\ (channels = 0 \/ bufferLength = 0)) =>
     /\ Len(blk.outL) = blk.frames
     /\ Len(blk.outR) = blk.frames
     /\ \A i \in 1 .. blk.frames : blk.outL[i] = 0 /\ blk.outR[i] = 0

\* A block processed after the buffer was removed, with play on, a note
\* held, a kill pending and grains left in the pool.
SilentBlockAfterBufferRemoved ==
  /\ blk.frames > 0
  /\ channels = 0
  /\ playing
  /\ hasKbNotesAny
  /\ g_count > 0
  /\ \E c \in Cursors : killPending[c]

\* C3: every output sample processLimiter writes has absolute value at
\* most the ceiling.
LimiterOutputWithinCeiling ==
  \A i \in 1 .. Len(limOut.L) :
     /\ Abs(limOut.L[i]) <= lim.ceil
     /\ Abs(limOut.R[i]) <= lim.ceil

\* C4: a grain that was live when a kill of its cursor was applied is out
\* of the pool once ceil(0.028 * sr) + N further frames have been processed.
KilledGrainsFreedInTime ==
  \A j \in 1 .. Len(grains) :
     grains[j].killAge < (killTailMs * SampleRate + 999) \div 1000 + ShortBlock

\* C5: after a soft-kill truncated a grain, the envelope applied to it
\* does not increase from one rendered frame to the next.
TruncatedEnvelopeNonIncreasing ==
  \A j \in 1 .. Len(grains) :
     grains[j].killPos >= 0 =>
        \A p \in grains[j].killPos .. (grains[j].envPos - 2) :
           envAtFromLUT(p + 1, grains[j].envLen) <= envAtFromLUT(p, grains[j].envLen)

\* C6: with process() called again and again, a cursor whose kill is
\* pending and which has no live grain gets its flag cleared (or gets a
\* grain again) after finitely many calls.
KillFlagEventuallyCleared ==
  \A c \in Cursors :
     (killPending[c] /\ ~\E j \in 1 .. Len(grains) : grains[j].cursor = c)
        ~> (~killPending[c] \/ \E j \in 1 .. Len(grains) : grains[j].cursor = c)

\* C7: in a processed block with a source buffer present, schedOne runs for
\* cursor c exactly if play is on or c holds a note of its own, and grains
\* are spawned for c only in such a block.
SchedulerRunsIffActive ==
  (blk.frames > 0 /\ channels > 0 /\ bufferLength > 0) =>
     \A c \in Cursors :
        /\ blk.sched[c] <=> (playing \/ Len(kbNotes[c]) > 0)
        /\ blk.spawned[c] > 0 => (playing \/ Len(kbNotes[c]) > 0)

\* Play off, a note held on cursor A only: A is scheduled and spawns, B is not.
NoteSchedulesOwnCursorOnly ==
  /\ blk.ran
  /\ ~playing
  /\ Len(kbNotes[1]) = 0
  /\ blk.sched[0] /\ blk.spawned[0] > 0
  /\ ~blk.sched[1] /\ blk.spawned[1] = 0

SpawnsPerBlockBounded ==
  \A c \in Cursors :
     /\ blk.attempts[c] <= Max(24, (32 * SampleRate) \div 48000)
     /\ blk.spawned[c] <= blk.attempts[c]

\* A block in which the limit stopped the loop with frames left.
SpawnLimitReached ==
  /\ blk.ran
  /\ blk.attempts[0] = Max(24, (32 * SampleRate) \div 48000)
  /\ framesToNext[0] <= 0

\* C10: while the held-note set of a cursor stays the same, the numbers of
\* grains spawned with each of its notes differ by at most 1; a dropped
\* spawn does not take a turn.
RoundRobinEven ==
  \A c \in Cursors :
     \A i, j \in 1 .. Len(served[c]) : served[c][i] - served[c][j] <= 1

\* Two notes held on cursor A, one served once more than the other, in a
\* block that dropped a spawn of A.
RoundRobinAfterDrop ==
  /\ Len(kbNotes[0]) = 2
  /\ blk.fullHits > 0
  /\ blk.attempts[0] > blk.spawned[0]
  /\ blk.spawned[0] > 0
  /\ served[0] # <<0, 0>>

\* C14: the countdown of every cursor, in frames to its next grain, is
\* never negative.
CountdownNonNegative ==
  \A c \in Cursors : framesToNext[c] >= 0

\* The number of entries of arr equal to x, and what a step that handles a
\* note message does to the held notes.
Count(arr, x) == Cardinality({ i \in 1 .. Len(arr) : arr[i] = x })
NoteSetStep ==
  LET d == lastMsg'
      c == d.cursor.lo
  IN  /\ (d.type = "noteOn" /\ Count(kbNotes[c], d.semis) > 0) =>
            kbNotes' = kbNotes
      /\ d.type = "noteOff" =>
            /\ \A x \in Semis \cup {NaN} :
                  Count(kbNotes'[c], x) =
                    Count(kbNotes[c], x) -
                      (IF x = d.semis /\ Count(kbNotes[c], x) > 0 THEN 1 ELSE 0)
            /\ \A o \in Cursors \ {c} : kbNotes'[o] = kbNotes[o]
      /\ \A o \in Cursors : \A x \in Semis \cup {NaN} : Count(kbNotes'[o], x) <= 1

\* C11: a noteOn for a semitone the cursor already holds leaves its held
\* notes as they are; a noteOff removes one entry equal to the semitone
\* (none if there is none) and no other entry; and after any note message
\* or block no cursor holds a semitone twice.
HeldNotesStaySets == [][NoteSetStep]_vars

\* A noteOn for a semitone that cursor A already holds next to another one.
DuplicateNoteOnSeen ==
  /\ lastMsg.type = "noteOn"
  /\ lastMsg.cursor = Cur(0)
  /\ Len(kbNotes[0]) = 2
  /\ kbNotes[0][1] = lastMsg.semis
  /\ Len(kbNotes[2]) = 1

\* C12: no cursor ever holds more than 16 notes, whatever noteOn and
\* noteOnAll messages arrive.
MaxPolyphony == 16
HeldNotesWithinPolyphony ==
  \A c \in Cursors : Len(kbNotes[c]) <= MaxPolyphony

\* C13: between process() calls every live grain has an envelope length of
\* at least 1 and an envelope position from 0 up to, and not including,
\* that length, also after a soft kill has cut the length: a grain whose
\* position reaches its length is freed in the same call.
LiveGrainInsideEnvelope ==
  \A j \in 1 .. g_count :
     /\ grains[j].envLen >= 1
     /\ 0 <= grains[j].envPos
     /\ grains[j].envPos < grains[j].envLen

\* A block that left a grain cut by a soft kill in the pool, next to the
\* state in which a block spawned a grain of infinite length and freed it.
TruncatedGrainLive ==
  /\ blk.ran
  /\ \E j \in 1 .. g_count : grains[j].killPos >= 0 /\ grains[j].envPos > grains[j].killPos
  /\ params[1] = endlessParams
  /\ blk.spawned[1] > 0

\* C15: the position p of every cursor satisfies 0 <= p < 1 in every
\* state, after any setPositions message and any number of blocks with any
\* scan speed.
PositionsInUnitInterval ==
  \A c \in Cursors :
     positions[c] # NaN /\ 0 <= positions[c] /\ positions[c] < PosOne

\* C19: a setPositions message with k >= 1 positions overwrites the
\* positions of the cursors 0 .. min(k, 3) - 1 with the clamped values and
\* leaves the other positions as they are.
SetPositionsOverwritesGiven ==
  [][ lastMsg'.type = "setPositions" =>
        LET ps == lastMsg'.positions
        IN  \A c \in Cursors :
              positions'[c] = IF c < Min(Len(ps), 3)
                              THEN fround(clamp01(ps[c + 1]))
                              ELSE positions[c] ]_vars

\* C20: as long as no loudness map has been set, every grain is spawned
\* with a gain compensation of exactly 1.
UnitCompensationWithoutMap ==
  ~loudMap.set => \A j \in 1 .. g_count : grains[j].gainC = GainScale

\* The messages the engine is to ignore: a noteOn, noteOff or clearKbNotes
\* whose cursor field is not 0, 1 or 2, a note message whose semitone is
\* not finite, a killCursorGrains whose cursor field is not -1, 0, 1 or 2,
\* and a message of a type without a case.
cursorFieldIn(cf, lo, hi) == cf.hi = 0 /\ lo <= cf.lo /\ cf.lo <= hi
OutOfRange(d) ==
  \/ d.type \in {"noteOn", "noteOff", "clearKbNotes"} /\ ~cursorFieldIn(d.cursor, 0, 2)
  \/ d.type \in {"noteOn", "noteOff", "noteOnAll", "noteOffAll"} /\ ~isFinite(d.semis)
  \/ d.type = "killCursorGrains" /\ ~cursorFieldIn(d.cursor, 0 - 1, 2)
  \/ d.type = "unknown"

\* C18: such a message leaves the held notes, the round-robin indices, the
\* kill flags, the play state, the positions and the grain pool as they
\* are.
OutOfRangeMessagesIgnored ==
  [][ OutOfRange(lastMsg') =>
        UNCHANGED <<kbNotes, kbRR, killPending, playing, positions, g_count, grains>> ]_vars

\* The values _readParams() finds for a cursor: those of the shared array
\* once there is one, else those of the messages.
delivered(c) == IF paramView.set THEN paramView.v[c] ELSE params[c]

\* C17: in every block, a field of a cursor whose delivered value is not
\* finite is used with the last finite value seen for that field.
NonFiniteFieldUsesLastFinite ==
  blk.frames > 0 =>
    \A c \in Cursors :
       /\ ~isFinite(delivered(c).density) => blk.used[c].density = lastFinite[c].density
       /\ ~isFinite(delivered(c).durMs) => blk.used[c].durMs = lastFinite[c].durMs
       /\ ~isFinite(delivered(c).scanSpeed) => blk.used[c].scanSpeed = lastFinite[c].scanSpeed

\* C21: with a source buffer of exactly one frame no block spawns a grain
\* or has a grain to render, whatever the parameters, the play state and
\* the held notes.
SingleFrameSourceSpawnsNothing ==
  bufferLength = 1 =>
    /\ g_count = 0
    /\ \A c \in Cursors : blk.spawned[c] = 0

\* C22: every caller of waitForWorkletReady() that waits for the promise
\* is eventually resumed, also a caller that called before the worklet
\* node existed.
ReadyPromiseEventuallyResolved ==
  \A w \in ReadyCallers : (waiters[w] = "waiting") ~> (waiters[w] = "done")

\* C23: once a call of ensureAudio() has resolved, the AudioContext, the
\* worklet node and the recorder node exist and are wired, also when the
\* call overlapped another one.
EnsureAudioResolvedInitialized ==
  \A c \in EnsureCalls :
     ensurePc[c] = "resolved" => audioCtx /\ workletNode /\ recorderNode /\ wired

(***************************************************************************)
(* SpecViz: the throttling of the positions and telemetry events.  Blocks  *)
(* are ShortBlock frames long and every interval draw is ten blocks, the   *)
(* length of a default grain; a listener counts the frames between the     *)
(* events it receives.                                                     *)
(***************************************************************************)
\* the count stops here, where it has reached the interval
GapCap == vizIntervalFrames
\* What the listener holds after a block that left the record b behind.
observe(o, b) ==
  LET posGap == IF o.sincePos = -1 THEN -1 ELSE Min(o.sincePos + b.frames, GapCap)
      telGap == IF o.sinceTel = -1 THEN -1 ELSE Min(o.sinceTel + b.frames, GapCap)
  IN  [sincePos |-> IF b.posts.positions > 0 THEN 0 ELSE posGap,
       gapPos   |-> IF b.posts.positions > 0 THEN posGap ELSE o.gapPos,
       sinceTel |-> IF b.posts.telemetry > 0 THEN 0 ELSE telGap,
       gapTel   |-> IF b.posts.telemetry > 0 THEN telGap ELSE o.gapTel]

VizProcess ==
  \E frames \in {ShortBlock} :
    /\ process(frames, {10 * ShortBlock})
    /\ vizObs' = observe(vizObs, blk')
    /\ UNCHANGED <<lastMsg, limVars, appVars, recVars, glueVars, pureVars, portVars, micVars, markerVars>>
VizSetBuffer ==
  \E b \in Buffers : setBuffer(b[1], b[2]) /\ UNCHANGED <<lastMsg, outsideEngine>>
VizSetPlaying == \E v \in BOOLEAN : setPlaying(v) /\ UNCHANGED <<lastMsg, outsideEngine>>
VizNoteOn == noteOn(0, 0) /\ UNCHANGED <<lastMsg, outsideEngine>>

VizNext ==
  \/ VizProcess
  \/ VizSetBuffer
  \/ VizSetPlaying
  \/ VizNoteOn
SpecViz == Init /\ [][VizNext]_vars

\* C24: a block posts at most one positions event and at most one telemetry
\* event, and when an event of either kind follows an earlier one of its
\* kind, process() has counted at least floor(sr / 30) frames after the
\* block of the earlier one, the block of the later one included.
VizEventsThrottled ==
  /\ blk.posts.positions <= 1
  /\ blk.posts.telemetry <= 1
  /\ vizObs.gapPos # -1 => vizObs.gapPos >= SampleRate \div 30
  /\ vizObs.gapTel # -1 => vizObs.gapTel >= SampleRate \div 30
\* A short block posts both kinds of event, each after an earlier one.
SecondVizEventsPosted ==
  /\ blk.posts.positions = 1
  /\ blk.posts.telemetry = 1
  /\ blk.frames = ShortBlock
  /\ vizObs.gapPos # -1
  /\ vizObs.gapTel # -1

(***************************************************************************)
(* RecorderProcessor.  The maxFrames field of a rec-start message is the   *)
(* number hi * 2^32 + lo, with hi = NaN for a message without the field.   *)
(***************************************************************************)
MaxRecFrames == 15
\* port.onmessage, rec-start:
\* this.maxFrames = (d.maxFrames | 0) > 0 ? (d.maxFrames | 0) : 0
recStart(d) ==
  /\ recording' = TRUE
  /\ recFrames' = 0
  /\ maxFrames' = IF ToInt32(d.maxFrames) > 0 THEN ToInt32(d.maxFrames) ELSE 0
\* port.onmessage, rec-stop
recStop ==
  /\ recording' = FALSE
  /\ UNCHANGED <<maxFrames, recFrames>>
\* const remain = this.maxFrames ? Math.max(0, this.maxFrames - this.frames) : N
recRemain(N) == IF maxFrames # 0 THEN Max(0, maxFrames - recFrames) ELSE N
\* if (this.maxFrames && remain <= 0): the block that stops without a chunk
recExhausted(N) == maxFrames # 0 /\ recRemain(N) <= 0
recTakeWhole(N) == N
\* const take = this.maxFrames ? Math.min(N, remain) : N
recTake(N) == IF maxFrames # 0 THEN Min(N, recRemain(N)) ELSE N
\* The frames of the rec-chunk message a block of N frames posts, -1 when it
\* posts none.
recChunk(N) == IF ~recording \/ recExhausted(N) THEN -1 ELSE recTake(N)
\* The number of rec-autostop messages a block of N frames posts.
recAutostop(N) ==
  IF ~recording THEN 0
  ELSE IF recExhausted(N) THEN 1
  ELSE IF maxFrames # 0 /\ recFrames + recTake(N) >= maxFrames THEN 1 ELSE 0
\* RecorderProcessor.process with an input block of N frames
recProcess(N) ==
  IF ~recording
  THEN UNCHANGED <<recording, maxFrames, recFrames>>
  ELSE IF recExhausted(N)
  THEN recording' = FALSE /\ UNCHANGED <<maxFrames, recFrames>>
  ELSE /\ recFrames' = recFrames + recTake(N)
       /\ recording' = ~(maxFrames # 0 /\ recFrames + recTake(N) >= maxFrames)
       /\ UNCHANGED maxFrames

(***************************************************************************)
(* SpecRec: the recorder processor with blocks of one frame and of         *)
(* ShortBlock frames, armed with the limits the sessions compute (whole    *)
(* numbers of frames from 1 up) or with none.                              *)
(***************************************************************************)
RecLimits ==
  { [hi |-> 0, lo |-> n] : n \in 1 .. 3 * ShortBlock }
    \cup { [hi |-> NaN, lo |-> 0] }
\* the message asks for a limit of M > 0 frames
recLimited(M) == M.hi = 0 /\ M.lo > 0

RecStart ==
  \E M \in RecLimits :
    /\ recStart([type |-> "rec-start", maxFrames |-> M])
    /\ recObs' = [started |-> TRUE, M |-> M, total |-> 0, autostops |-> 0,
                  stopped |-> FALSE, late |-> 0]
    /\ UNCHANGED outsideRec
RecStop ==
  /\ recStop
  /\ recObs' = [recObs EXCEPT !.stopped = TRUE]
  /\ UNCHANGED outsideRec
RecProcess ==
  \E N \in {1, ShortBlock} :
    /\ recFrames < MaxRecFrames
    /\ recProcess(N)
    /\ recObs' = [recObs EXCEPT
                    !.total = @ + Max(0, recChunk(N)),
                    !.autostops = Min(2, @ + recAutostop(N)),
                    !.late = IF recChunk(N) >= 0
                                /\ (recObs.stopped
                                    \/ (recLimited(recObs.M) /\ recObs.total = recObs.M.lo))
                             THEN 1 ELSE @]
    /\ UNCHANGED outsideRec

RecNext ==
  \/ RecStart
  \/ RecStop
  \/ RecProcess
SpecRec == Init /\ [][RecNext]_vars

MaxPending == 1

GlueMidiMessage ==
  \E status \in {144, 128}, channel \in {0, 9}, key \in MidiKeys, velocity \in {0, 100} :
    /\ Len(kbPending) < MaxPending
    /\ handleMidiMessage(status, channel, key, velocity)
    /\ UNCHANGED outsideGlue
GlueSetPlayAllCursors == \E on \in BOOLEAN : setPlayAllCursors(on) /\ UNCHANGED outsideGlue
GlueSetActiveCursor == \E c \in {0, 1} : setActiveCursor(c) /\ UNCHANGED outsideGlue
GlueKeyDown ==
  \E code \in PianoCodes, wantAll \in BOOLEAN :
    /\ Len(kbPending) < MaxPending
    /\ onKeyDown(code, wantAll)
    /\ UNCHANGED outsideGlue
GlueKeyUp == \E code \in PianoCodes : onKeyUp(code) /\ UNCHANGED outsideGlue
GlueNoteOnResumes ==
  \E i \in DOMAIN kbPending : kbNoteOnResumes(i) /\ UNCHANGED outsideGlue
GlueToggleHold == toggleHoldFor(activeCursor) /\ UNCHANGED outsideGlue
GlueHoldToggleTimeout == holdToggleTimeout /\ UNCHANGED outsideGlue

GlueNext ==
  \/ GlueMidiMessage
  \/ GlueSetPlayAllCursors
  \/ GlueSetActiveCursor
  \/ GlueNoteOnResumes
  \/ AppEnsureAudioModule1
  \/ AppEnsureAudioModule2
SpecGlue == Init /\ [][GlueNext]_vars

HoldNext ==
  \/ GlueKeyDown
  \/ GlueKeyUp
  \/ GlueSetActiveCursor
  \/ GlueNoteOnResumes
  \/ GlueToggleHold
  \/ GlueHoldToggleTimeout
  \/ AppEnsureAudioModule1
  \/ AppEnsureAudioModule2
SpecHold == Init /\ [][HoldNext]_vars

\* the message m removes a note from the held notes of cursor c
removesNoteFrom(m, c) ==
  \/ m.type = "noteOff" /\ m.cursor = c
  \/ m.type = "noteOffAll"
  \/ m.type = "clearKbNotes" /\ m.cursor = c
\* C25: while HOLD is on for cursor c, no handler of the note input posts a
\* message that removes a note from the held notes of cursor c (noteOff for
\* c, noteOffAll, clearKbNotes for c).
HoldSuppressesNoteRemoval ==
  \A c \in Cursors :
    holdState[c] => \A i \in DOMAIN glueSent : ~removesNoteFrom(glueSent[i], c)

\* C27: the note-off callback of a MIDI key goes to the target its note-on
\* callback went to, and a Note On for a key that is down releases the
\* earlier note first: per target the note-on calls never fall behind the
\* note-off calls, the unmatched note-on calls are as many as the keys that
\* are down, and none is left when every key is released.
MidiNoteOffsMatchNoteOns ==
  /\ \A t \in Targets : midiObs.balance[t] \in 0 .. Cardinality(MidiKeys)
  /\ Cardinality({ x \in Targets \X (1 .. Cardinality(MidiKeys)) :
                     x[2] <= midiObs.balance[x[1]] })
       = Cardinality(midiObs.down)
  /\ midiObs.down = {} => \A t \in Targets : midiObs.balance[t] = 0
\* Every key is released, and the note-off of the last one went to a cursor
\* that is no longer the active one.
MidiNoteOffToEarlierCursor ==
  /\ midiObs.down = {}
  /\ Len(glueSent) = 1
  /\ glueSent[1].type = "noteOff"
  /\ glueSent[1].cursor # activeCursor
  /\ \A k \in MidiKeys : midiNotes[k] = NoNote
  /\ \A code \in PianoCodes : pianoKeys[code] = KeyUp

(***************************************************************************)
(* SpecWin: envAtFromLUT for grains of up to MaxEnvLen frames, at a        *)
(* position and at its mirror image len - 1 - pos.                         *)
(***************************************************************************)
MaxEnvLen == 16

WinLookup ==
  \E len \in 0 .. MaxEnvLen, pos \in 0 .. MaxEnvLen - 1 :
    /\ pos <= Max(0, len - 1)
    /\ win' = [called |-> TRUE, pos |-> pos, len |-> len,
               env |-> envAtFromLUT(pos, len),
               isZero |-> envAtIsZero(pos, len),
               mirror |-> envAtFromLUT(len - 1 - pos, len),
               mirrorIsZero |-> envAtIsZero(len - 1 - pos, len)]
    /\ UNCHANGED <<engineVars, limVars, appVars, vizObs, recVars, glueVars, portVars, micVars, markerVars>>

WinNext == WinLookup
SpecWin == Init /\ [][WinNext]_vars

\* C28: for a grain of len >= 2 frames the envelope lookup returns 0 at
\* position 0 and at position len - 1 and the same value at pos and at
\* len - 1 - pos; for len <= 1 it returns 1.
EnvelopeZeroEndedSymmetric ==
  win.called =>
    /\ win.len >= 2 /\ win.pos \in {0, win.len - 1} => win.isZero
    /\ win.len >= 2 => win.env = win.mirror /\ win.isZero = win.mirrorIsZero
    /\ win.len <= 1 => win.env = EnvScale

\* C30: in a block that passes the audio gate every grain that is live when
\* the render pass starts (it has frames of its envelope left) is visited
\* and mixed exactly once, and every _killGrainSwap of the pass removes the
\* grain at its index, lowers g_count by one and leaves the records of the
\* other grains as they were.
RenderPassVisitsEachGrainOnce ==
  blk.ran =>
    /\ \A j \in blk.render.live :
         blk.render.visits[j] = 1 /\ blk.render.rendered[j] = 1
    /\ \A j \in 1 .. blk.render.n : blk.render.visits[j] = 1
    /\ blk.render.swapOk
\* A pass over three grains or more in which a finished grain below the last
\* index was removed and the last grain moved into its place.
GrainRemovedBelowLast ==
  /\ blk.ran
  /\ blk.render.n >= 3
  /\ blk.render.moved = 1
  /\ g_count >= 1
  /\ g_count < blk.render.n

(***************************************************************************)
(* The limiter's delay line.                                               *)
(***************************************************************************)
\* The frame of the history that entered the limiter `lookahead` frames
\* before output frame i of the latest block, or 0 when there is none.
delayedFrame(hist, i) ==
  LET p == Len(hist) - Len(limOut.L) + i - lim.lookahead
  IN  IF p >= 1 THEN hist[p] ELSE 0

\* C31: output frame i of a processLimiter call is the sanitized, trimmed
\* frame that entered the limiter exactly `lookahead` frames before it (0
\* when there is no such frame yet), multiplied by the envelope of the block.
LimiterOutputDelayedByLookahead ==
  \A i \in 1 .. Len(limOut.L) :
     /\ limOut.L[i] = MulScaled(delayedFrame(limHist.L, i), lim.env)
     /\ limOut.R[i] = MulScaled(delayedFrame(limHist.R, i), lim.env)

(***************************************************************************)
(* The limiter given blocks that do not fit its ring.                      *)
(***************************************************************************)
\* A block size above the ring's margin (extra = 256), and the blocks of
\* the runs: ramps, so that every frame of a run differs from its neighbours.
BigBlock == 257
RingSizes == {1, 2, BigBlock}
RingInputs ==
  { [L |-> [i \in 1 .. n |-> v + i], R |-> [i \in 1 .. n |-> -(v + i)], nonFinite |-> {}]
    : v \in {0, 1000}, n \in RingSizes }

RingLimit == \E b \in RingInputs : limit(b) /\ UNCHANGED outsideLim
RingNext == RingLimit
SpecRing == Init /\ [][RingNext]_vars

\* The ring of capacity cap after the frames of hist were written to it
\* from write = 0 on, as step 3 of processLimiter writes them.
ringFromStart(hist, cap) ==
  [k \in 1 .. cap |->
     LET hits == { j \in 1 .. Len(hist) : ((j - 1) % cap) + 1 = k }
     IN  IF hits = {} THEN 0 ELSE hist[SetMax(hits)]]
\* Limiter state s, had its ring had capacity cap from the start.
hadCapacity(s, hist, cap) ==
  [s EXCEPT !.bufL = ringFromStart(hist.L, cap),
            !.bufR = ringFromStart(hist.R, cap),
            !.write = Len(hist.L) % cap]
ringGrown(s) == Len(s.bufL) > Len(createLimiter(LimSampleRate).bufL)

\* C32: a block that does not fit the ring makes the ring grow to
\* max(lookahead + N, 2 * old length), and every block emitted from then on
\* is the block a limiter whose ring had that capacity from the start emits.
RingGrowthKeepsOutput ==
  [][ /\ Len(lim'.bufL) > Len(lim.bufL) =>
           Len(lim'.bufL) = Max(lim.lookahead + Len(limIn'.L), 2 * Len(lim.bufL))
      /\ ringGrown(lim') =>
           LET r == processLimiter(hadCapacity(lim, limHist, Len(lim'.bufL)),
                                   limIn'.L, limIn'.R, limIn'.nonFinite)
           IN  limOut' = [L |-> r.outL, R |-> r.outR] ]_vars

\* C33: after every processLimiter call the envelope is above 0 and at
\* most 1, so the gain reduction reported, toDb(env), is at most 0 dB.
LimiterEnvelopeInRange ==
  /\ lim.env > 0
  /\ lim.env <= LimScale

\* The envelope was pulled down by a loud block and is being released by a
\* block that needs no reduction: it is strictly between its lowest value
\* and 1.
EnvelopeReleasing ==
  /\ limBlocks >= 2
  /\ lim.env < LimScale
  /\ truePeak2x(trimmedBlock(lim, limIn.L, limIn.nonFinite),
                trimmedBlock(lim, limIn.R, {})) <= lim.ceil
  /\ Len(limIn.L) > 0

\* C34: with process() called again and again, whenever play is off and no
\* note is held, the grain pool becomes empty after finitely many calls
\* (unless play is switched on or a note is held again before that).
IdleEngineDrainsPool ==
  (~playing /\ ~hasKbNotesAny /\ g_count > 0)
     ~> (g_count = 0 \/ playing \/ hasKbNotesAny)

(***************************************************************************)
(* SpecPiano: the QWERTY piano with HOLD off.  One note key and Alt go     *)
(* down and up, the active cursor changes, the pending note-on calls       *)
(* resume, the audio engine finishes its initialization, and the           *)
(* processor handles the messages of its port in the order they were       *)
(* posted.  A key goes down only when it is up and up only when it is      *)
(* down, and e.altKey is what the Alt events left in state.altDown.        *)
(***************************************************************************)
MaxPianoPending == 2
MaxPort == 2

\* postMessage: the message as the processor's onmessage receives it
portMsg(m) == [type |-> m.type, cursor |-> Cur(m.cursor), semis |-> m.semis,
               positions |-> <<>>]
\* the messages the handler of this step posted join the port's queue
portPosted ==
  portQueue' = portQueue \o [i \in 1 .. Len(glueSent') |-> portMsg(glueSent'[i])]
outsidePiano == <<engineVars, limVars, vizObs, recVars, pureVars, micVars, markerVars>>

PianoKeyDown ==
  \E code \in PianoCodes :
     /\ pianoKeys[code].mode = "up"
     /\ Len(kbPending) < MaxPianoPending
     /\ onKeyDown(code, altDown)
     /\ portPosted
     /\ UNCHANGED outsidePiano
PianoKeyUp ==
  \E code \in PianoCodes :
     /\ pianoKeys[code].mode # "up"
     /\ Len(portQueue) < MaxPort
     /\ onKeyUp(code)
     /\ portPosted
     /\ UNCHANGED outsidePiano
PianoAltDown ==
  /\ ~altDown
  /\ Len(kbPending) < MaxPianoPending
  /\ Len(portQueue) < MaxPort
  /\ onAltDown
  /\ portPosted
  /\ UNCHANGED outsidePiano
PianoAltUp ==
  /\ altDown
  /\ Len(kbPending) < MaxPianoPending
  /\ Len(portQueue) < MaxPort
  /\ onAltUp
  /\ portPosted
  /\ UNCHANGED outsidePiano
PianoSetActiveCursor ==
  \E c \in {0, 1} : c # activeCursor /\ setActiveCursor(c) /\ UNCHANGED <<outsidePiano, portVars>>
PianoNoteOnResumes ==
  \E i \in 1 .. Len(kbPending) :
     /\ Len(portQueue) < MaxPort
     /\ kbNoteOnResumes(i)
     /\ portPosted
     /\ UNCHANGED outsidePiano
PianoDelivers ==
  /\ portQueue # <<>>
  /\ onmessage(Head(portQueue))
  /\ portQueue' = Tail(portQueue)
  /\ UNCHANGED <<limVars, appVars, vizObs, recVars, glueVars, pureVars, micVars, markerVars>>

PianoNext ==
  \/ PianoKeyDown
  \/ PianoKeyUp
  \/ PianoAltDown
  \/ PianoAltUp
  \/ PianoSetActiveCursor
  \/ PianoNoteOnResumes
  \/ PianoDelivers
  \/ AppEnsureAudioModule1
  \/ AppEnsureAudioModule2
SpecPiano == Init /\ [][PianoNext]_vars

\* C35: with HOLD off, once every note key is up again, every note-on call
\* has resumed and the processor has handled every message posted, no
\* cursor's held-note set in the processor contains a note.
PianoNotesRemovedOnRelease ==
  ( /\ \A c \in Cursors : ~holdState[c]
    /\ \A code \in PianoCodes : pianoKeys[code] = KeyUp
    /\ kbPending = <<>>
    /\ portQueue = <<>> )
  => \A c \in Cursors : kbNotes[c] = <<>>

(***************************************************************************)
(* The microphone session: hold M, or hold the mic button, to record.      *)
(***************************************************************************)
\* micHoldStart() up to its first await
micHoldStart(guarded) ==
  micStart' = [pc |-> "starting", guarded |-> guarded]
\* micHoldStop() up to its first await: without micCtrl it awaits
\* stopMicVisualizer() and returns; with it, micCtrl.stop() clears
\* active.recording, posts rec-stop and is awaited
micHoldStop(guarded) ==
  IF ~micCtrl
  THEN micStop' = [pc |-> "cleanup", guarded |-> guarded] /\ UNCHANGED micActive
  ELSE micStop' = [pc |-> "stopping", guarded |-> guarded] /\ micActive' = FALSE

\* hotkeys onKeyDown for M: MicGuard.safely(micHoldStart)
micKeyDown ==
  IF micDownM
  THEN UNCHANGED micVars
  ELSE /\ micDownM' = TRUE
       /\ IF micBusy
          THEN UNCHANGED <<micBusy, micStart>>
          ELSE micBusy' = TRUE /\ micHoldStart(TRUE)
       /\ UNCHANGED <<micPointer, micStop, micCtrl, micActive>>
\* hotkeys onKeyUp for M: MicGuard.safely(micHoldStop)
micKeyUp ==
  /\ micDownM' = FALSE
  /\ IF micBusy
     THEN UNCHANGED <<micBusy, micStop, micActive>>
     ELSE micBusy' = TRUE /\ micHoldStop(TRUE)
  /\ UNCHANGED <<micPointer, micStart, micCtrl>>
\* the mic button's pointerdown listener: await micHoldStart()
micPointerDown ==
  /\ micPointer' = TRUE
  /\ micHoldStart(FALSE)
  /\ UNCHANGED <<micDownM, micBusy, micStop, micCtrl, micActive>>
\* the mic button's pointerup / pointercancel listener: stopMicIfActive
micPointerUp ==
  /\ micPointer' = FALSE
  /\ micHoldStop(FALSE)
  /\ UNCHANGED <<micDownM, micBusy, micStart, micCtrl>>

\* micHoldStart after `await Mic.startHoldRecording(...)`: micCtrl = rec
\* (startHoldRecording has set active.recording and posted rec-start)
micStartRecording ==
  /\ micStart.pc = "starting"
  /\ micCtrl' = TRUE
  /\ micActive' = TRUE
  /\ micStart' = [micStart EXCEPT !.pc = "visualizer"]
  /\ UNCHANGED <<micDownM, micPointer, micBusy, micStop>>
\* micHoldStart's catch: an await before micCtrl = rec threw
micStartFails ==
  /\ micStart.pc = "starting"
  /\ micCtrl' = FALSE
  /\ micStart' = [micStart EXCEPT !.pc = "visualizer"]
  /\ UNCHANGED <<micDownM, micPointer, micBusy, micStop, micActive>>
\* micHoldStart returns; MicGuard.safely's finally
micStartDone ==
  /\ micStart.pc = "visualizer"
  /\ micStart' = [pc |-> "idle", guarded |-> FALSE]
  /\ micBusy' = IF micStart.guarded THEN FALSE ELSE micBusy
  /\ UNCHANGED <<micDownM, micPointer, micStop, micCtrl, micActive>>
\* micHoldStop after `await micCtrl.stop()`: micCtrl = null
micStopResolved ==
  /\ micStop.pc = "stopping"
  /\ micCtrl' = FALSE
  /\ micStop' = [micStop EXCEPT !.pc = "cleanup"]
  /\ UNCHANGED <<micDownM, micPointer, micBusy, micStart, micActive>>
\* micHoldStop returns; MicGuard.safely's finally
micStopDone ==
  /\ micStop.pc = "cleanup"
  /\ micStop' = [pc |-> "idle", guarded |-> FALSE]
  /\ micBusy' = IF micStop.guarded THEN FALSE ELSE micBusy
  /\ UNCHANGED <<micDownM, micPointer, micStart, micCtrl, micActive>>
\* the recorder's rec-autostop message: the maximum duration was reached
micAutostop ==
  /\ micActive
  /\ micActive' = FALSE
  /\ UNCHANGED <<micDownM, micPointer, micBusy, micStart, micStop, micCtrl>>

(***************************************************************************)
(* SpecMic: the M key and the mic button go down and up; at most one       *)
(* micHoldStart() call and one micHoldStop() call are in progress at a     *)
(* time.  Every await of the two functions returns and a recording left    *)
(* running reaches its maximum duration (weak fairness); the user is free  *)
(* to press or not.                                                        *)
(***************************************************************************)
outsideMic == <<engineVars, limVars, appVars, vizObs, recVars, glueVars, pureVars,
                portVars, markerVars>>
MicKeyDown ==
  /\ ~micDownM
  /\ micBusy \/ micStart.pc = "idle"
  /\ micKeyDown
  /\ UNCHANGED outsideMic
MicKeyUp ==
  /\ micDownM
  /\ micBusy \/ micStop.pc = "idle"
  /\ micKeyUp
  /\ UNCHANGED outsideMic
MicPointerDown ==
  /\ ~micPointer
  /\ micStart.pc = "idle"
  /\ micPointerDown
  /\ UNCHANGED outsideMic
MicPointerUp ==
  /\ micPointer
  /\ micStop.pc = "idle"
  /\ micPointerUp
  /\ UNCHANGED outsideMic
MicStartRecording == micStartRecording /\ UNCHANGED outsideMic
MicStartFails == micStartFails /\ UNCHANGED outsideMic
MicStartDone == micStartDone /\ UNCHANGED outsideMic
MicStopResolved == micStopResolved /\ UNCHANGED outsideMic
MicStopDone == micStopDone /\ UNCHANGED outsideMic
MicAutostop == micAutostop /\ UNCHANGED outsideMic

MicNext ==
  \/ MicKeyDown
  \/ MicKeyUp
  \/ MicPointerDown
  \/ MicPointerUp
  \/ MicStartRecording
  \/ MicStartFails
  \/ MicStartDone
  \/ MicStopResolved
  \/ MicStopDone
  \/ MicAutostop
SpecMic ==
  /\ Init /\ [][MicNext]_vars
  /\ WF_vars(MicStartRecording \/ MicStartFails)
  /\ WF_vars(MicStartDone)
  /\ WF_vars(MicStopResolved)
  /\ WF_vars(MicStopDone)
  /\ WF_vars(MicAutostop)

\* C36: whenever the M key and the mic button are both up, the recording
\* stops and micCtrl is cleared after finitely many steps (unless the key
\* or the button goes down again before that).
MicStopsAfterRelease ==
  (~micDownM /\ ~micPointer)
     ~> ((~micCtrl /\ ~micActive) \/ micDownM \/ micPointer)


(***************************************************************************)
(* SpecGain: gains delivered by setParamsFor messages, NaN and Infinity    *)
(* among them, while the engine plays.  The densities are set to 0 before  *)
(* play is switched on, so that the pool stays empty.                      *)
(***************************************************************************)
\* case "setParamsFor" with d.params = { gain: g }: Object.assign stores g
setGainFor(c, g) ==
  /\ gainSt' = [gainSt EXCEPT !.param[c] = g]
  /\ blk' = NoBlk
  /\ UNCHANGED <<channels, bufferLength, playing, params, kbNotes, kbRR,
                 killPending, framesToNext, g_count, grains, served, positions,
                 paramView, loudMap, lastFinite, vizCounter>>

\* the main thread writes g to the gain slot of cursor c in the shared array
writeGainToSAB(c, g) ==
  /\ paramView.set
  /\ gainSt' = [gainSt EXCEPT !.view[c] = g]
  /\ blk' = NoBlk
  /\ UNCHANGED <<channels, bufferLength, playing, params, kbNotes, kbRR,
                 killPending, framesToNext, g_count, grains, served, positions,
                 paramView, loudMap, lastFinite, vizCounter>>

\* The gains delivered: NaN, Infinity and 0.5.
GainChoices == {NaN, Infinity, defaultGain}
GainCursors == {0, 1}

GainProcess == process(ShortBlock, {MaxInterval}) /\ UNCHANGED <<lastMsg, outsideEngine>>
GainSetBuffer == setBuffer(2, BufLen) /\ UNCHANGED <<lastMsg, outsideEngine>>
GainSetSilent ==
  /\ setParamsAll(silentParams, silentParams, silentParams)
  /\ UNCHANGED <<lastMsg, outsideEngine>>
GainSetPlaying ==
  /\ \A c \in Cursors : params[c] = silentParams
  /\ \E on \in BOOLEAN : setPlaying(on)
  /\ UNCHANGED <<lastMsg, outsideEngine>>
GainSetGainFor ==
  /\ \E c \in GainCursors, g \in GainChoices : setGainFor(c, g)
  /\ UNCHANGED <<lastMsg, outsideEngine>>
GainSetParamSAB ==
  /\ ~paramView.set
  /\ setParamSAB([c \in Cursors |-> silentParams])
  /\ UNCHANGED <<lastMsg, outsideEngine>>
GainWriteSAB ==
  /\ \E g \in {NaN, defaultGain} : writeGainToSAB(1, g)
  /\ UNCHANGED <<lastMsg, outsideEngine>>

GainNext ==
  \/ GainProcess
  \/ GainSetBuffer
  \/ GainSetSilent
  \/ GainSetPlaying
  \/ GainSetGainFor
  \/ GainSetParamSAB
  \/ GainWriteSAB

SpecGain == Init /\ [][GainNext]_vars

\* C37: each cursor's smoothed gain is finite and at least 0 in every
\* reachable state, whatever gains were delivered.
SmoothedGainFiniteNonNegative ==
  \A c \in Cursors : isFinite(gainSt.smooth[c]) /\ gainSt.smooth[c] >= 0


\* C38: a kill request shortens only grains that are live in the block in
\* which it is applied: when a block has applied the pending request of
\* cursor c and no message has arrived since, the next block truncates no
\* grain of cursor c that it has spawned itself.
spawnedAndCut(c) ==
  \E j \in 1 .. Len(grains') :
     /\ grains'[j].cursor = c
     /\ grains'[j].envPos = blk'.frames
     /\ grains'[j].killPos = 0
     /\ grains'[j].killAge = blk'.frames
KillSparesLaterGrains ==
  [][\A c \in Cursors :
       (blk.ran /\ killPending[c] /\ blk'.ran /\ blk'.spawned[c] > 0)
          => ~spawnedAndCut(c)]_vars


(***************************************************************************)
(* SpecMarker: the user drags the marker of cursor A or C over the         *)
(* waveform while cursor B scans.  The densities are 0, so that the pool   *)
(* stays empty; the two ports each hold at most MaxMarkerMsgs messages.    *)
(***************************************************************************)
MaxMarkerMsgs == 1
\* scan speed of cursor B, in units of 1 / PosOne per frame
ScanStep == 100
\* where the pointer is, as xNorm in units of 1 / PosOne
PointerX == {PosOne \div 4}

\* onPointerDown on the marker `which` (hitWhichMarker(e)), a buffer loaded
onPointerDown(which) ==
  /\ which # -1
  /\ markers' = [markers EXCEPT !.which = which, !.lock[which] = TRUE]
  /\ setActiveCursor(which)

\* onPointerMove at xNorm, past the slop: positions[dragState.which] = xNorm;
\* sendPositions()
onPointerMove(xNorm) ==
  /\ markers.which >= 0
  /\ LET pos == [markers.positions EXCEPT ![markers.which] = clamp01(xNorm)]
     IN  markers' = [markers EXCEPT
                       !.positions = pos,
                       !.toWorklet = Append(@, [positions |-> pos,
                                                which |-> markers.which])]

\* onPointerUp / onPointerCancel
onPointerUp ==
  /\ markers' = [markers EXCEPT
                   !.lock = IF markers.which >= 0
                            THEN [@ EXCEPT ![markers.which] = FALSE] ELSE @,
                   !.which = -1]

\* workletNode.port.onmessage of the main thread for a "positions" event:
\* if (!lock || !lock[i]) pos[i] = clamp01(d.positions[i])
mainReceivesPositions ==
  /\ markers.toMain # <<>>
  /\ markers' = [markers EXCEPT
                   !.positions = [c \in Cursors |->
                                    IF markers.lock[c] THEN @[c]
                                    ELSE clamp01(Head(markers.toMain)[c])],
                   !.toMain = Tail(@)]

\* the processor's port.onmessage takes the oldest setPositions message
workletReceivesPositions ==
  /\ markers.toWorklet # <<>>
  /\ setPositions([i \in 1 .. 3 |-> Head(markers.toWorklet).positions[i - 1]])
  /\ markers' = [markers EXCEPT !.toWorklet = Tail(@)]

\* process() with its "positions" event posted to the main thread
processPosting(frames, ivs) ==
  /\ process(frames, ivs)
  /\ markers' = [markers EXCEPT
                   !.toMain = IF blk'.posts.positions > 0
                              THEN Append(@, positions') ELSE @]

outsideMarker == <<limVars, appVars, vizObs, recVars, glueVars, pureVars, portVars, micVars>>

MarkerProcess ==
  /\ Len(markers.toMain) < MaxMarkerMsgs
  /\ processPosting(ShortBlock, {MaxInterval})
  /\ UNCHANGED <<lastMsg, outsideMarker>>
MarkerSetScan ==
  /\ \E v \in {0, ScanStep} :
       setParamsAll(silentParams, [silentParams EXCEPT !.scanSpeed = v], silentParams)
  /\ UNCHANGED <<lastMsg, outsideMarker, markerVars>>
MarkerSetPlaying ==
  /\ \A c \in Cursors : params[c].density = 0
  /\ \E on \in BOOLEAN : setPlaying(on)
  /\ UNCHANGED <<lastMsg, outsideMarker, markerVars>>
MarkerPointerDown ==
  /\ markers.which = -1
  /\ \E which \in {0, 2} : onPointerDown(which)
  /\ UNCHANGED <<engineVars, limVars, vizObs, recVars, pureVars, portVars, micVars>>
MarkerPointerMove ==
  /\ Len(markers.toWorklet) < MaxMarkerMsgs
  /\ \E x \in PointerX : onPointerMove(x)
  /\ UNCHANGED <<engineVars, outsideMarker>>
MarkerPointerUp ==
  /\ markers.which >= 0
  /\ onPointerUp
  /\ UNCHANGED <<engineVars, outsideMarker>>
MarkerMainReceives == mainReceivesPositions /\ UNCHANGED <<engineVars, outsideMarker>>
MarkerWorkletReceives == workletReceivesPositions /\ UNCHANGED <<lastMsg, outsideMarker>>

MarkerNext ==
  \/ MarkerProcess
  \/ MarkerSetScan
  \/ MarkerSetPlaying
  \/ MarkerPointerDown
  \/ MarkerPointerMove
  \/ MarkerPointerUp
  \/ MarkerMainReceives
  \/ MarkerWorkletReceives

SpecMarker == Init /\ [][MarkerNext]_vars

\* C39: the setPositions message of a marker move changes the engine's
\* position of the moved cursor only.
markerMessageHandled ==
  /\ markers.toWorklet # <<>>
  /\ markers'.toWorklet = Tail(markers.toWorklet)
MarkerMoveKeepsOtherCursors ==
  [][markerMessageHandled =>
       \A c \in Cursors \ {Head(markers.toWorklet).which} :
          positions'[c] = positions[c]]_vars


(***************************************************************************)
(* SpecSwap: the main thread loads one decoded buffer after the other      *)
(* while a note is held.  Each buffer comes with the loudness map          *)
(* buildLoudnessMap computes from it.                                      *)
(***************************************************************************)
\* window of the loudness map: buildLoudnessMap(audioBuffer, 2048)
LoudWin == 2048
\* The decoded buffers: their length in frames and the rms windows of
\* their loudness maps.
DecodedBuffers == { [len |-> BufLen, rms |-> <<5000>>],
                    [len |-> 2 * BufLen, rms |-> <<1200>>] }

\* useDecodedBuffer(audioBuffer) after its await of waitForWorkletReady():
\* the setBuffer message and then the setLoudnessMap message are posted
useDecodedBuffer(b) ==
  portQueue' = portQueue \o << [type |-> "setBuffer", len |-> b.len, rms |-> b.rms],
                               [type |-> "setLoudnessMap", len |-> b.len, rms |-> b.rms] >>

\* the processor's port.onmessage takes the oldest of these messages
workletReceivesBuffer ==
  /\ portQueue # <<>>
  /\ portQueue' = Tail(portQueue)
  /\ IF Head(portQueue).type = "setBuffer"
     THEN setBuffer(2, Head(portQueue).len)
     ELSE setLoudnessMap([has |-> TRUE, rms |-> Head(portQueue).rms, win |-> LoudWin])

outsideSwap == <<limVars, appVars, vizObs, recVars, glueVars, pureVars, micVars, markerVars>>

SwapUseDecodedBuffer ==
  /\ portQueue = <<>>
  /\ \E b \in DecodedBuffers : b.len # bufferLength /\ useDecodedBuffer(b)
  /\ UNCHANGED <<engineVars, outsideSwap>>
SwapWorkletReceives == workletReceivesBuffer /\ UNCHANGED <<lastMsg, outsideSwap>>
SwapProcess == process(ShortBlock, {MaxInterval}) /\ UNCHANGED <<lastMsg, outsideEngine>>
SwapNoteOn == noteOn(0, 0) /\ UNCHANGED <<lastMsg, outsideEngine>>
SwapNoteOff == noteOff(0, 0) /\ UNCHANGED <<lastMsg, outsideEngine>>

SwapNext ==
  \/ SwapUseDecodedBuffer
  \/ SwapWorkletReceives
  \/ SwapProcess
  \/ SwapNoteOn
  \/ SwapNoteOff

SpecSwap == Init /\ [][SwapNext]_vars

\* the compensation gain a grain spawned from the buffer of `len` frames
\* gets from that buffer's own loudness map
ownComp(len) ==
  loudCompOf(Max(1, (CHOOSE b \in DecodedBuffers : b.len = len).rms[1]))

\* C40: once the processor holds a loudness map, the grains a block spawns
\* carry the compensation of the map of the buffer the processor holds in
\* that block, never that of the buffer before.
SpawnUsesMapOfItsBuffer ==
  (blk.ran /\ loudMap.set) =>
     \A j \in 1 .. Len(grains) :
        grains[j].envPos = blk.frames => grains[j].gainC = ownComp(bufferLength)

====
